---- MODULE Spec2Model ----
(***************************************************************************)
(* Persistent multiplexed terminal session service (enhanced SSH server    *)
(* with tmux integration and an SFTP subsystem).                           *)
(*                                                                         *)
(* The state machines modelled:                                            *)
(*   Spec      - connections, shell channels, SSHService.handleShellSession*)
(*               and the TmuxService commands it awaits;                   *)
(*   SftpSpec  - SSHService.handleSFTP: the request handlers, the fs calls *)
(*               they issue and the callbacks that answer the client;      *)
(*   HandleSpec - the handlers of SftpSpec that take or return a file      *)
(*               handle, over longer runs;                                 *)
(*   ScenarioBSpec - one client that creates, writes, closes and stats a   *)
(*               file through the same handlers;                           *)
(*   AuthSpec  - SSHService.handleAuth, the 'ready' event and the session  *)
(*               events of each connection;                                *)
(*   TmuxSpec  - TmuxService.killSession, enablePersistence and            *)
(*               restoreSession on sessions created earlier;               *)
(*   RelaySpec - SSHService.start with ATCClient.connect / send and the    *)
(*               data handlers of a shell channel.                         *)
(* The external tmux binary and the operating system's file system are the *)
(* environment: every external command may exit non-zero.                  *)
(***************************************************************************)
EXTENDS Integers, Sequences, FiniteSets, TLC

\* ----------------------------------------------------------------- bounds
NumChans == 2
MaxTime == 1

Conns == {1, 2}
Chans == 1..NumChans
\* ctx.username is whatever the client sends; "./bob" is a name that holds a
\* path separator.
Users == {"alice", "bob", "./bob"}
\* Names of sessions that may already live on the default tmux server when
\* the service starts (created outside the service, e.g. by `tmux new -s`).
DefaultNames == {"alice"}

\* -------------------------------------------------------------- identifiers
\* `${clientInfo.username}_${Date.now()}`
AppId(u, t) == [kind |-> "app", user |-> u, n |-> t]
\* tmux's own #{session_id}, "$n"
MuxId(n) == [kind |-> "mux", user |-> "", n |-> n]
NoId == [kind |-> "none", user |-> "", n |-> 0]
\* the display name a session is created with: `options.name || sessionId`
NameOf(u) == [kind |-> "user", user |-> u, n |-> 0]

\* a user name split at its path separators
PathSegments(u) == IF u = "./bob" THEN <<".", "bob">> ELSE <<u>>

\* path.normalize over segments: "." is dropped, ".." removes the segment
\* before it.
RECURSIVE normalize(_, _)
normalize(done, todo) ==
    IF todo = <<>> THEN done
    ELSE IF Head(todo) = "." THEN normalize(done, Tail(todo))
    ELSE IF Head(todo) = ".." /\ done # <<>>
    THEN normalize(SubSeq(done, 1, Len(done) - 1), Tail(todo))
    ELSE normalize(Append(done, Head(todo)), Tail(todo))

\* path.join(dir, <text of sessionId>): the segments are joined and
\* normalized. The identifier's text starts with the user name, so all but
\* the last segment of the name are directories and the last one begins the
\* file name.
pathJoin(dir, sessionId) ==
    LET segs == PathSegments(sessionId.user)
    IN  [dir |-> normalize(<<>>, <<dir>> \o SubSeq(segs, 1, Len(segs) - 1)),
         file |-> [sessionId EXCEPT !.user = segs[Len(segs)]]]

\* path.join(SOCKET_DIR, `${sessionId}.sock`)
getSocketPath(sessionId) ==
    [dir |-> pathJoin("SOCKET_DIR", sessionId).dir,
     file |-> pathJoin("SOCKET_DIR", sessionId).file, ext |-> ".sock"]

\* path.join(RESURRECT_DIR, sessionId)
getResurrectPath(sessionId) == pathJoin("RESURRECT_DIR", sessionId)

VARIABLES
    now,            \* the last value Date.now() returned
    defaultSrv,     \* sessions of the default tmux server: [name, id]
    mux,            \* sessions living on per-session sockets: [socket, name]
    created,        \* history: every [id, name, ch] a new-session command created
    saved,          \* resurrect files written: getResurrectPath(id)
    cstate,         \* per connection: "connected" | "authenticating" |
                    \* "accepted" | "ready"
    username,       \* clientInfo.username
    sessionKey,     \* handleClientReady's sessionId: `session_${Date.now()}`
    activeChannels, \* clientInfo.activeChannels
    sessions,       \* this.sessions: key -> [shell, isTmux, conn]
    alive,          \* live pty processes, named by the channel that spawned them
    chan            \* per shell channel: the frame of handleShellSession

shellVars == <<now, defaultSrv, mux, created, saved, cstate, username, sessionKey,
               activeChannels, sessions, alive, chan>>

VARIABLES
    dirExists,      \* the directory Dir exists
    files,          \* path -> size of the regular file there, or Absent
    fds,            \* the process's descriptor table: fd -> open file description
    pending,        \* fs calls issued by SFTP handlers whose callback has not run
    nreq,           \* number of SFTP requests received so far
    sftpState,      \* per file-transfer channel: "open" | "ended" | "aborted"
    issued,         \* history: handles sftp.handle() sent on the channel
    closedHandles,  \* history: issued handles whose CLOSE was answered OK
    delivered,      \* history: directory entries sftp.name() sent on the channel
    last,           \* history: what the step just taken sent to the client
    scen            \* position of the client in Scenario B

sftpVars == <<dirExists, files, fds, pending, nreq, sftpState, issued,
              closedHandles, delivered, last, scen>>

VARIABLES
    keysFile,          \* config/authorized_keys: [readable, entries]
    generatedPassword, \* this.generatedPassword
    authReply,         \* history: the last authentication request and what
                       \* its handler answered
    accepted,          \* history, per connection: ctx.accept() was called
    served             \* history, per connection: the channel kinds dispatched

authVars == <<keysFile, generatedPassword, authReply, accepted, served>>

VARIABLES
    wins,              \* windows of each tmux session: session -> names
    snapshots,         \* content of the resurrect files: path -> saved layout
    sockFiles,         \* socket files present in SOCKET_DIR
    savedLayout,       \* history, per identifier: the layout its last
                       \* successful save captured
    adminLast          \* history: the TmuxService call that just returned

adminVars == <<wins, snapshots, sockFiles, savedLayout, adminLast>>

VARIABLES
    startState,        \* position of start(): "constructed" | "listening" |
                       \* "connecting" | "started"
    relayUp,           \* the Event Relay accepts WebSocket connections
    ws,                \* ATCClient.ws: "null", or the socket's readyState
                       \* "connecting" | "open" | "closed"
    attemptsLeft,      \* attemptsLeft of the running attemptConnect
    retryTimer,        \* the setTimeout of onerror is pending
    proc,              \* the service's process: "running" | "crashed"
    unhandled,         \* a promise of atc.send() was rejected; nothing handles it
    infoBytesWritten,      \* clientInfo.bytesWritten: relay process -> client
    infoBytesRead,         \* clientInfo.bytesRead: client -> relay process
    attempts,          \* sockets created by attemptConnect so far
    toRelay,           \* messages handed to an open relay socket, in order
    toStream,          \* chunks written to the clients' streams, in order
    toShell            \* strings written to the relay processes, in order

relayVars == <<startState, relayUp, ws, attemptsLeft, retryTimer, proc, unhandled,
               infoBytesWritten, infoBytesRead, attempts, toRelay, toStream, toShell>>

VARIABLES
    stopState,         \* stop(): "idle" | "killing" | "stopped" | "threw"
    stopEntry,         \* the registry entry whose killSession stop() awaits
    killRequests       \* relay processes whose session stop() asked tmux to kill

stopVars == <<stopState, stopEntry, killRequests>>

VARIABLES
    adapterCall,       \* the TmuxService operation in progress or just finished
    rawSvc             \* the socket service of services/ssh.service.ts

pkgVars == <<adapterCall, rawSvc>>

svcVars == <<authVars, adminVars, relayVars, stopVars, pkgVars>>

vars == <<shellVars, sftpVars, svcVars>>

NoArgs == [sock |-> getSocketPath(NoId), target |-> NoId]

\* A channel frame: pc is the position in handleShellSession, conn the
\* connection, tmuxSessionId the local of that name, spawn the [sock, target]
\* handed to pty.spawn, closeShell the shell of the entry the close handler
\* read before awaiting the save. pred and predClosed are history: the
\* channels of the same user whose resolution had completed, respectively
\* whose stream had closed, when this channel was opened.
IdleChan == [pc |-> "idle", conn |-> 0, tmuxSessionId |-> NoId, spawn |-> NoArgs,
             closeShell |-> 0, pred |-> {}, predClosed |-> {}]

Resolved == {"attached", "closeSave", "closed", "closeFailed"}
Closed == {"closed", "closeFailed"}

\* the channel took the create path
ViaCreate(ch) == chan[ch].tmuxSessionId.kind = "app"

\* The shell side when every connection is in state st and the sessions m
\* live on per-session sockets; a connection past "connected" carries the
\* user name of its authentication request.
ShellInitFrom(st, m) ==
    /\ now = 0
    /\ \E S \in SUBSET DefaultNames :
          defaultSrv = {[name |-> NameOf(nm), id |-> MuxId(0)] : nm \in S}
    /\ mux = m
    /\ created = {}
    /\ saved = {}
    /\ cstate = [c \in Conns |-> st]
    /\ username \in IF st = "connected" THEN {[c \in Conns |-> ""]} ELSE [Conns -> Users]
    /\ sessionKey = [c \in Conns |-> 0]
    /\ activeChannels = [c \in Conns |-> 0]
    /\ sessions = <<>>
    /\ alive = {}
    /\ chan = [ch \in Chans |-> IdleChan]

\* Connections whose authentication was accepted and whose 'ready' event has
\* not been delivered yet.
ShellInit == ShellInitFrom("accepted", {})

\* The shell side of a service on which no pre-existing tmux session is listed.
ShellIdle ==
    ShellInit /\ defaultSrv = {} /\ username = [c \in Conns |-> "alice"]

\* ------------------------------------------------------ helper operators
\* Date.now(): the clock never runs backwards. Timestamps are only ever
\* compared for equality, so since the last read the clock either has not
\* advanced or has advanced (one unit stands for any positive amount).
DateNow == {t \in {now, now + 1} : t <= MaxTime}

\* this.sessions.set(key, entry)
MapSet(m, key, entry) ==
    [k \in DOMAIN m \cup {key} |-> IF k = key THEN entry ELSE m[k]]

\* this.sessions.delete(key)
MapDelete(m, key) == [k \in DOMAIN m \ {key} |-> m[k]]

\* ------------------------------------------------- TmuxService (adapter)
\* listSessions(): `tmux list-sessions -F ...` carries no -S option, so it is
\* answered by the default server; each output line is parsed to {id, name}.
listSessions == {[id |-> s.id, name |-> s.name] : s \in defaultSrv}

\* Sessions of the server listening on the socket of `sessionId`.
SessionsOn(sessionId) == {s \in mux : s.socket = getSocketPath(sessionId)}

\* createSession, first command: `new-session -S <socket> -d -s <name>`.
\* tmux refuses a second session of the same name on one server.
newSessionCanSucceed(sessionId, name) ==
    \A s \in SessionsOn(sessionId) : s.name # name

newSession(sessionId, name) ==
    mux \cup {[socket |-> getSocketPath(sessionId), name |-> name]}

\* enablePersistence(sessionId): `run-shell -S <socket> "tmux-resurrect save
\* <RESURRECT_DIR>/<sessionId>"`; ok is the command's exit status being 0,
\* which needs a server on that socket.
enablePersistence(sessionId, ok) ==
    /\ ok => SessionsOn(sessionId) # {}
    /\ saved' = IF ok THEN saved \cup {getResurrectPath(sessionId)} ELSE saved
    /\ mux' = mux

\* A close handler that destroyed the multiplexer server of the session
\* instead of saving it.
StreamCloseCommand_Destroy(sessionId, ok) ==
    /\ ok => SessionsOn(sessionId) # {}
    /\ saved' = saved
    /\ mux' = IF ok THEN mux \ SessionsOn(sessionId) ELSE mux

\* The multiplexer command the stream close handler awaits (isTmux branch).
StreamCloseCommand(sessionId, ok) == enablePersistence(sessionId, ok)

\* --------------------------------------------------- connection handler
\* client 'ready', which follows an accepted authentication:
\* handleClientReady fixes sessionId = `session_${Date.now()}` and registers
\* the listener that dispatches the connection's channels.
ClientReady(c) ==
    /\ UNCHANGED <<sftpVars, svcVars>>
    /\ cstate[c] = "accepted"
    /\ c > 1 => cstate[c - 1] = "ready"
    /\ \E t \in DateNow : now' = t
    /\ sessionKey' = [sessionKey EXCEPT ![c] = now']
    /\ cstate' = [cstate EXCEPT ![c] = "ready"]
    /\ UNCHANGED <<defaultSrv, mux, created, saved, username, activeChannels,
                   sessions, alive, chan>>

\* client 'session' + session 'shell': the channel counter is incremented and
\* handleShellSession runs up to its first await (listSessions).
ShellOpen(c, ch) ==
    /\ UNCHANGED <<sftpVars, svcVars>>
    /\ cstate[c] = "ready"
    /\ chan[ch].pc = "idle"
    /\ ch > 1 => chan[ch - 1].pc # "idle"
    /\ activeChannels' = [activeChannels EXCEPT ![c] = @ + 1]
    /\ LET same == {o \in Chans : chan[o].conn # 0 /\ username[chan[o].conn] = username[c]}
       IN  chan' = [chan EXCEPT ![ch] =
                [IdleChan EXCEPT !.pc = "list", !.conn = c,
                                 !.pred = {o \in same : chan[o].pc \in Resolved},
                                 !.predClosed = {o \in same : chan[o].pc \in Closed}]]
    /\ UNCHANGED <<now, defaultSrv, mux, created, saved, cstate, username,
                   sessionKey, sessions, alive>>

\* pty.spawn('tmux', ['-S', socket, 'attach-session', '-t', id]) followed by
\* this.sessions.set(sessionId, {shell, isTmux, clientInfo}) and the wiring
\* of the data, resize and close handlers.
SpawnAndRegister(ch, id) ==
    /\ alive' = alive \cup {ch}
    /\ sessions' = MapSet(sessions, sessionKey[chan[ch].conn],
                          [shell |-> ch, isTmux |-> TRUE, conn |-> chan[ch].conn])
    /\ chan' = [chan EXCEPT ![ch].pc = "attached",
                            ![ch].tmuxSessionId = id,
                            ![ch].spawn = [sock |-> getSocketPath(id), target |-> id]]

\* A catch block that ended every channel of the connection.
AbortOpen_EndConnection(ch) ==
    chan' = [o \in Chans |->
                IF chan[o].conn = chan[ch].conn
                THEN [IdleChan EXCEPT !.pc = "ended", !.conn = chan[ch].conn]
                ELSE chan[o]]

\* catch (error) { stream.end() }: the frame of handleShellSession is gone.
AbortOpen(ch) ==
    chan' = [chan EXCEPT ![ch] = [IdleChan EXCEPT !.pc = "ended", !.conn = chan[ch].conn]]

\* listSessions() returns: attach to the session named like the user, or
\* start createSession with a fresh identifier.
ListDone(ch) ==
    /\ UNCHANGED <<sftpVars, svcVars>>
    /\ chan[ch].pc = "list"
    /\ \E ok \in BOOLEAN :
        LET u == username[chan[ch].conn]
            existing == {s \in listSessions : s.name = NameOf(u)}
        IN  IF ~ok
            THEN /\ AbortOpen(ch)
                 /\ UNCHANGED <<now, alive, sessions>>
            ELSE IF existing # {}
            THEN /\ SpawnAndRegister(ch, (CHOOSE s \in existing : TRUE).id)
                 /\ UNCHANGED now
            ELSE /\ \E t \in DateNow : now' = t
                 /\ chan' = [chan EXCEPT ![ch].pc = "newSession",
                                         ![ch].tmuxSessionId = AppId(u, now')]
                 /\ UNCHANGED <<alive, sessions>>
    /\ UNCHANGED <<defaultSrv, mux, created, saved, cstate, username,
                   sessionKey, activeChannels>>

\* createSession: the new-session command returns; with options.group set,
\* chmodSync and the `run-shell chgrp` command follow. A failure of either
\* step is rethrown and ends the stream; the chgrp step fails after the
\* session was created.
NewSessionDone(ch) ==
    /\ UNCHANGED <<sftpVars, svcVars>>
    /\ chan[ch].pc = "newSession"
    /\ \E ok \in BOOLEAN, chgrpOk \in BOOLEAN :
        LET id == chan[ch].tmuxSessionId
            name == NameOf(username[chan[ch].conn])
        IN  /\ ok => newSessionCanSucceed(id, name)
            /\ ~ok => chgrpOk
            /\ IF ok
               THEN /\ mux' = newSession(id, name)
                    /\ created' = created \cup {[id |-> id, name |-> name, ch |-> ch]}
                    /\ IF chgrpOk
                       THEN chan' = [chan EXCEPT ![ch].pc = "persist"]
                       ELSE AbortOpen(ch)
               ELSE /\ AbortOpen(ch)
                    /\ UNCHANGED <<mux, created>>
    /\ UNCHANGED <<now, defaultSrv, saved, cstate, username, sessionKey,
                   activeChannels, sessions, alive>>

\* createSession: enablePersistence returns; on success the shell is spawned.
PersistDone(ch) ==
    /\ UNCHANGED <<sftpVars, svcVars>>
    /\ chan[ch].pc = "persist"
    /\ \E ok \in BOOLEAN :
        /\ enablePersistence(chan[ch].tmuxSessionId, ok)
        /\ IF ok
           THEN SpawnAndRegister(ch, chan[ch].tmuxSessionId)
           ELSE /\ AbortOpen(ch)
                /\ UNCHANGED <<alive, sessions>>
    /\ UNCHANGED <<now, defaultSrv, created, cstate, username, sessionKey,
                   activeChannels>>

\* stream 'close': look the entry up by the connection's sessionId and, for a
\* tmux session, start the save.
StreamClose(ch) ==
    /\ UNCHANGED <<sftpVars, svcVars>>
    /\ chan[ch].pc = "attached"
    /\ LET key == sessionKey[chan[ch].conn]
       IN  IF key \in DOMAIN sessions
           THEN chan' = [chan EXCEPT ![ch].pc = "closeSave",
                                     ![ch].closeShell = sessions[key].shell]
           ELSE chan' = [chan EXCEPT ![ch].pc = "closed"]
    /\ UNCHANGED <<now, defaultSrv, mux, created, saved, cstate, username,
                   sessionKey, activeChannels, sessions, alive>>

\* the save returns: kill the relay process, drop the entry, decrement the
\* counter; a failed save rejects the handler's promise and nothing follows.
CloseSaveDone(ch) ==
    /\ UNCHANGED <<sftpVars, svcVars>>
    /\ chan[ch].pc = "closeSave"
    /\ \E ok \in BOOLEAN :
        /\ StreamCloseCommand(chan[ch].tmuxSessionId, ok)
        /\ IF ok
           THEN /\ alive' = alive \ {chan[ch].closeShell}
                /\ sessions' = MapDelete(sessions, sessionKey[chan[ch].conn])
                /\ activeChannels' = [activeChannels EXCEPT ![chan[ch].conn] = @ - 1]
                /\ chan' = [chan EXCEPT ![ch].pc = "closed", ![ch].closeShell = 0]
           ELSE /\ chan' = [chan EXCEPT ![ch].pc = "closeFailed", ![ch].closeShell = 0]
                /\ UNCHANGED <<alive, sessions, activeChannels>>
    /\ UNCHANGED <<now, defaultSrv, created, cstate, username, sessionKey>>

\* ======================================================= authentication
\* SSHService.handleAuth and the two handlers it dispatches to.

\* Text is a sequence of character codes: 0..63 are the characters of the
\* base64 alphabet in alphabet order, pad is '='; sp, nl, algo and comment
\* stand for a space, a line feed, the algorithm field and the comment field
\* of a line of authorized_keys.
Chars == [pad |-> 64, sp |-> 65, nl |-> 66, algo |-> 67, comment |-> 68]

\* Buffer.toString('base64'): three bytes become four characters, a final
\* group of one or two bytes is padded.
RECURSIVE toStringBase64(_)
toStringBase64(data) ==
    IF Len(data) = 0 THEN <<>>
    ELSE IF Len(data) = 1
    THEN <<data[1] \div 4, (data[1] % 4) * 16, Chars.pad, Chars.pad>>
    ELSE IF Len(data) = 2
    THEN <<data[1] \div 4, (data[1] % 4) * 16 + data[2] \div 16,
           (data[2] % 16) * 4, Chars.pad>>
    ELSE <<data[1] \div 4, (data[1] % 4) * 16 + data[2] \div 16,
           (data[2] % 16) * 4 + data[3] \div 64, data[3] % 64>>
         \o toStringBase64(SubSeq(data, 4, Len(data)))

\* One line of authorized_keys: "<algorithm> <base64 of the key> <comment>\n"
RECURSIVE FileText(_)
FileText(entries) ==
    IF Len(entries) = 0 THEN <<>>
    ELSE <<Chars.algo, Chars.sp>> \o toStringBase64(Head(entries))
         \o <<Chars.sp, Chars.comment, Chars.nl>>
         \o FileText(Tail(entries))

\* String.prototype.includes: needle occurs in hay as a contiguous run
includes(hay, needle) ==
    \E i \in 0..(Len(hay) - Len(needle)) :
        SubSeq(hay, i + 1, i + Len(needle)) = needle

\* Key blobs (ctx.key.data) of the two keys an operator may authorize.
KeyA == <<1, 2, 3, 4, 5, 6>>
KeyB == <<7, 8, 9>>

\* The states of config/authorized_keys: missing or unreadable, empty, one
\* entry, two entries.
KeysFiles ==
    {[readable |-> FALSE, entries |-> <<>>]}
    \cup {[readable |-> TRUE, entries |-> e] : e \in {<<>>, <<KeyA>>, <<KeyA, KeyB>>}}

\* ctx.key of a request: absent, or a blob. The blobs: empty, the two
\* authorizable keys, the first and the second half of KeyA, KeyA followed
\* by one more byte, and a key unrelated to both.
NoKey == [present |-> FALSE, data |-> <<>>]
KeyInputs ==
    {NoKey} \cup
    {[present |-> TRUE, data |-> d] :
        d \in {<<>>, KeyA, KeyB, <<1, 2, 3>>, <<4, 5, 6>>, KeyA \o <<7>>, <<9, 9, 9>>}}

\* session events delivered per connection
MaxSessions == 1

Passwords == {"pw1", "pw2"}
Methods == {"publickey", "password", "none", "keyboard-interactive"}
ChannelKinds == {"shell", "sftp"}

\* ctx.accept() / ctx.reject(methodsLeft); reject() without an argument
\* passes no list.
NoMethods == <<>>
accept == [accept |-> TRUE, methodsLeft |-> NoMethods]
reject(methodsLeft) == [accept |-> FALSE, methodsLeft |-> methodsLeft]

NoReply == [conn |-> 0, method |-> "", password |-> "", key |-> NoKey,
            accept |-> FALSE, methodsLeft |-> NoMethods]

\* handlePublicKeyAuth: readFileSync of the whole file, then
\* `pubKey && keys.includes(pubKey)`; a read error is caught and rejected.
handlePublicKeyAuth(key) ==
    IF ~keysFile.readable THEN reject(NoMethods)
    ELSE LET keys == FileText(keysFile.entries)
             pubKey == toStringBase64(key.data)
         IN  IF key.present /\ pubKey # <<>> /\ includes(keys, pubKey)
             THEN accept
             ELSE reject(NoMethods)

\* handlePasswordAuth: `password === this.generatedPassword`
handlePasswordAuth(password) ==
    IF password = generatedPassword THEN accept ELSE reject(NoMethods)

\* A dispatcher whose last branch rejects without naming the methods left.
handleAuth_BareReject(method, password, key) ==
    IF method = "publickey" THEN handlePublicKeyAuth(key)
    ELSE IF method = "password" THEN handlePasswordAuth(password)
    ELSE reject(NoMethods)

\* handleAuth: dispatch on ctx.method
handleAuth(method, password, key) ==
    IF method = "publickey" THEN handlePublicKeyAuth(key)
    ELSE IF method = "password" THEN handlePasswordAuth(password)
    ELSE reject(<<"password", "publickey">>)

AuthInit ==
    /\ keysFile \in KeysFiles
    /\ generatedPassword \in Passwords
    /\ authReply = NoReply
    /\ accepted = [c \in Conns |-> FALSE]
    /\ served = [c \in Conns |-> {}]

\* The authentication side once every connection's request was accepted.
AuthIdle ==
    /\ keysFile = [readable |-> FALSE, entries |-> <<>>]
    /\ generatedPassword = "pw1"
    /\ authReply = NoReply
    /\ accepted = [c \in Conns |-> TRUE]
    /\ served = [c \in Conns |-> {}]

\* client 'authentication': record the user name and hand the context to
\* handleAuth. A password request carries a password, a publickey request
\* may carry a key. After an accept the library delivers 'ready'.
Authentication(c) ==
    /\ UNCHANGED sftpVars
    /\ cstate[c] \in {"connected", "authenticating"}
    /\ \E u \in Users, method \in Methods, password \in Passwords, key \in KeyInputs :
        /\ method # "password" => password = "pw1"
        /\ method # "publickey" => key = NoKey
        /\ username' = [username EXCEPT ![c] = u]
        /\ LET verdict == handleAuth(method, password, key)
           IN  /\ authReply' =
                      [conn |-> c, method |-> method, password |-> password,
                       key |-> key, accept |-> verdict.accept,
                       methodsLeft |-> verdict.methodsLeft]
               /\ accepted' = [accepted EXCEPT ![c] = @ \/ verdict.accept]
               /\ cstate' = [cstate EXCEPT ![c] =
                      IF verdict.accept THEN "accepted" ELSE "authenticating"]
    /\ UNCHANGED <<now, defaultSrv, mux, created, saved, sessionKey, activeChannels,
                   sessions, alive, chan>>
    /\ UNCHANGED <<keysFile, generatedPassword, served, adminVars, relayVars,
                   stopVars, pkgVars>>

\* The listener that accepts a session and dispatches its shell and sftp
\* requests is registered on the connection itself, before authentication.
SessionListenerRegistered_AtConnection(c) == TRUE

\* The listener that accepts a session and dispatches its shell and sftp
\* requests exists once handleClientReady has run.
SessionListenerRegistered(c) == cstate[c] = "ready"

\* client 'session': the listener of the connection callback counts the
\* channel; the listener of handleClientReady, where registered, accepts the
\* session and hands its shell or sftp request to handleShellSession or
\* handleSFTP.
SessionEvent(c, kind) ==
    /\ UNCHANGED sftpVars
    /\ activeChannels[c] < MaxSessions
    /\ activeChannels' = [activeChannels EXCEPT ![c] = @ + 1]
    /\ served' = [served EXCEPT ![c] =
           IF SessionListenerRegistered(c) THEN @ \cup {kind} ELSE @]
    /\ UNCHANGED <<now, defaultSrv, mux, created, saved, cstate, username,
                   sessionKey, sessions, alive, chan>>
    /\ UNCHANGED <<keysFile, generatedPassword, authReply, accepted, adminVars, relayVars,
                   stopVars, pkgVars>>

\* ============================================ session administration
\* TmuxService.killSession, enablePersistence and restoreSession called on
\* their own, with the tmux servers and the persistence tool as environment.

\* identifiers the calls are made with
AdminIds == {AppId(u, 0) : u \in {"alice", "bob"}}

\* a session created by createSession(id, options): named options.name when
\* given, else named like the identifier
SessionOf(id, named) ==
    [socket |-> getSocketPath(id), name |-> IF named THEN NameOf(id.user) ELSE id]

\* window names a user may leave a session with
WindowLayouts == {<<"w0">>, <<"w0", "w1">>, <<"logs">>}

NoLayout == <<>>
NoAdmin == [op |-> "none", id |-> NoId, threw |-> FALSE, absent |-> FALSE,
            changed |-> FALSE]

\* the layout of the server on the socket of sessionId: session -> windows
ServerLayout(sessionId) == [s \in SessionsOn(sessionId) |-> wins[s]]

AdminIdle ==
    /\ wins = [s \in mux |-> <<"w0">>]
    /\ snapshots = <<>>
    /\ sockFiles = {s.socket : s \in mux}
    /\ savedLayout = [id \in AdminIds |-> NoLayout]
    /\ adminLast = NoAdmin

\* `kill-session -t <sessionId>`: the sessions of the server on the socket
\* that the target names
killTarget(sessionId) == {s \in SessionsOn(sessionId) : s.name = sessionId}

\* killSession(sessionId): the kill-session command, then the socket file is
\* unlinked when it still exists; a command that exits non-zero (no server
\* on the socket, no session the target names) is logged and rethrown.
killSession(sessionId) ==
    \E ok \in BOOLEAN :
        /\ ok => killTarget(sessionId) # {}
        /\ mux' = IF ok THEN mux \ killTarget(sessionId) ELSE mux
        /\ wins' = [s \in mux' \cap DOMAIN wins |-> wins[s]]
        /\ sockFiles' = IF ok THEN sockFiles \ {getSocketPath(sessionId)} ELSE sockFiles
        /\ adminLast' = [op |-> "killSession", id |-> sessionId, threw |-> ~ok,
                         absent |-> killTarget(sessionId) = {},
                         changed |-> mux' # mux \/ sockFiles' # sockFiles]
        /\ UNCHANGED <<saved, snapshots, savedLayout>>

\* enablePersistence(sessionId) with the persistence tool's effect: the
\* layout of the server is written to the file the command names.
EnablePersistence(sessionId) ==
    \E ok \in BOOLEAN :
        /\ enablePersistence(sessionId, ok)
        /\ snapshots' = IF ok
                        THEN MapSet(snapshots, getResurrectPath(sessionId),
                                    ServerLayout(sessionId))
                        ELSE snapshots
        /\ savedLayout' = IF ok
                          THEN [savedLayout EXCEPT ![sessionId] = ServerLayout(sessionId)]
                          ELSE savedLayout
        /\ adminLast' = [op |-> "enablePersistence", id |-> sessionId, threw |-> ~ok,
                         absent |-> SessionsOn(sessionId) = {}, changed |-> ok]
        /\ UNCHANGED <<wins, sockFiles>>

\* restoreSession reading the file of another identifier
restoreSessionFile_Other(sessionId) == getResurrectPath(AppId("alice", 0))

\* the file restoreSession hands to the persistence tool
restoreSessionFile(sessionId) == getResurrectPath(sessionId)

\* restoreSession(sessionId): `run-shell -S <socket> "tmux-resurrect restore
\* <file>"` needs a server on the socket and the file; the tool recreates
\* the sessions and windows the file describes on that server.
restoreSession(sessionId) ==
    \E ok \in BOOLEAN :
        LET file == restoreSessionFile(sessionId)
            snap == IF file \in DOMAIN snapshots THEN snapshots[file] ELSE <<>>
        IN  /\ ok => (SessionsOn(sessionId) # {} /\ file \in DOMAIN snapshots)
            /\ mux' = IF ok THEN mux \cup DOMAIN snap ELSE mux
            /\ wins' = IF ok
                       THEN [s \in mux' |-> IF s \in DOMAIN snap THEN snap[s] ELSE wins[s]]
                       ELSE wins
            /\ adminLast' = [op |-> "restoreSession", id |-> sessionId, threw |-> ~ok,
                             absent |-> SessionsOn(sessionId) = {},
                             changed |-> wins' # wins]
            /\ UNCHANGED <<saved, snapshots, sockFiles, savedLayout>>

\* A user of the session opens, closes or renames windows.
UserWindows(s, layout) ==
    /\ s \in mux
    /\ wins[s] # layout
    /\ wins' = [wins EXCEPT ![s] = layout]
    /\ adminLast' = NoAdmin
    /\ UNCHANGED <<mux, saved, snapshots, sockFiles, savedLayout>>

\* what the administration calls leave alone
AdminFrame ==
    UNCHANGED <<now, defaultSrv, created, cstate, username, sessionKey,
                activeChannels, sessions, alive, chan, sftpVars, authVars,
                relayVars, stopVars, pkgVars>>

\* ======================================================= Event Relay
\* SSHService.start, ATCClient.connect / send and the data handlers of
\* handleShellSession.

\* this.atc.connect(5, 2000)
Retries == 5
\* data events per direction
MaxBytes == 2

RelayIdle ==
    /\ startState = "started"
    /\ relayUp = TRUE
    /\ ws = "open"
    /\ attemptsLeft = Retries
    /\ retryTimer = FALSE
    /\ proc = "running"
    /\ unhandled = FALSE
    /\ infoBytesWritten = [c \in Conns |-> 0]
    /\ infoBytesRead = [c \in Conns |-> 0]
    /\ attempts = 1
    /\ toRelay = <<>> /\ toStream = <<>> /\ toShell = <<>>

RelayInit ==
    /\ startState = "constructed"
    /\ relayUp \in BOOLEAN
    /\ ws = "null"
    /\ attemptsLeft = Retries
    /\ retryTimer = FALSE
    /\ proc = "running"
    /\ unhandled = FALSE
    /\ infoBytesWritten = [c \in Conns |-> 0]
    /\ infoBytesRead = [c \in Conns |-> 0]
    /\ attempts = 0
    /\ toRelay = <<>> /\ toStream = <<>> /\ toShell = <<>>

\* what the relay actions leave alone
RelayFrame == UNCHANGED <<shellVars, sftpVars, authVars, adminVars, stopVars, pkgVars>>

\* the server accepts connections
Listening == startState \in {"connecting", "started"}

\* start(): the listen callback resolves the first await (the port is free).
Listen ==
    /\ proc = "running" /\ startState = "constructed"
    /\ startState' = "listening"
    /\ UNCHANGED <<relayUp, ws, attemptsLeft, retryTimer, proc, unhandled,
                   infoBytesWritten, infoBytesRead, toRelay, toStream, toShell, attempts>>
    /\ RelayFrame

\* attemptConnect(n): this.ws = new WebSocket(url), a socket that is connecting
attemptConnect(n) ==
    /\ ws' = "connecting"
    /\ attemptsLeft' = n
    /\ attempts' = attempts + 1

\* connect() settles and start() returns; a server that stop() has closed
\* meanwhile stays closed
startCompleted == IF startState = "closed" THEN "closed" ELSE "started"

\* start() goes on to `await this.atc.connect(5, 2000)`: the first attempt.
Connect ==
    /\ proc = "running" /\ startState = "listening"
    /\ startState' = "connecting"
    /\ attemptConnect(Retries)
    /\ UNCHANGED <<relayUp, retryTimer, proc, unhandled, infoBytesWritten, infoBytesRead,
                   toRelay, toStream, toShell>>
    /\ RelayFrame

\* ws.onopen: connect() resolves and start() completes.
WsOpen ==
    /\ proc = "running" /\ ws = "connecting" /\ relayUp
    /\ ws' = "open"
    /\ startState' = startCompleted
    /\ UNCHANGED <<relayUp, attemptsLeft, retryTimer, proc, unhandled, infoBytesWritten,
                   infoBytesRead, toRelay, toStream, toShell, attempts>>
    /\ RelayFrame

\* An error handler that schedules another attempt whatever is left.
WsError_Forever ==
    /\ proc = "running" /\ ws = "connecting" /\ ~relayUp
    /\ ws' = "closed"
    /\ retryTimer' = TRUE /\ startState' = startState
    /\ UNCHANGED <<relayUp, attemptsLeft, proc, unhandled, infoBytesWritten, infoBytesRead,
                   toRelay, toStream, toShell, attempts>>
    /\ RelayFrame

\* ws.onerror (the socket is closed by then): schedule the next attempt, or
\* reject connect(); start() catches the rejection, warns and completes.
WsError ==
    /\ proc = "running" /\ ws = "connecting" /\ ~relayUp
    /\ ws' = "closed"
    /\ IF attemptsLeft > 0
       THEN retryTimer' = TRUE /\ startState' = startState
       ELSE retryTimer' = FALSE /\ startState' = startCompleted
    /\ UNCHANGED <<relayUp, attemptsLeft, proc, unhandled, infoBytesWritten, infoBytesRead,
                   toRelay, toStream, toShell, attempts>>
    /\ RelayFrame

\* ws.onerror on a connection that had opened (the peer is gone): the same
\* handler, still attached to the socket, schedules an attempt when the
\* attempt that created this socket had any left; the socket is closed.
WsErrorOpen ==
    /\ proc = "running" /\ ws = "open"
    /\ ws' = "closed"
    /\ retryTimer' = (attemptsLeft > 0)
    /\ UNCHANGED <<startState, relayUp, attemptsLeft, proc, unhandled, infoBytesWritten,
                   infoBytesRead, toRelay, toStream, toShell, attempts>>
    /\ RelayFrame

\* setTimeout(() => attemptConnect(attemptsLeft - 1), delay) fires
RetryTimer ==
    /\ proc = "running" /\ retryTimer
    /\ retryTimer' = FALSE
    /\ attemptConnect(attemptsLeft - 1)
    /\ UNCHANGED <<startState, relayUp, proc, unhandled, infoBytesWritten, infoBytesRead,
                   toRelay, toStream, toShell>>
    /\ RelayFrame

\* ATCClient.send(data), an async function: without a socket it throws; with
\* one it calls ws.send, which throws while the socket is connecting, drops
\* the message once the socket is closed and sends it while open. Whatever is
\* thrown rejects the promise send() returns.
send ==
    CASE ws = "null" -> "rejected"
      [] ws = "connecting" -> "rejected"
      [] ws = "closed" -> "dropped"
      [] ws = "open" -> "sent"

\* A channel that put the newest chunk in front of the ones still queued.
streamWrite_Front(queue, data) == <<data>> \o queue

\* stream.write(data): the channel sends the chunks in the order of the calls
streamWrite(queue, data) == Append(queue, data)

\* data.toString(): the chunk decoded as UTF-8 on its own; bytes that are not
\* a complete sequence within the chunk become replacement characters
dataToString(data) ==
    [ch |-> data.ch, n |-> data.n, text |-> IF data.utf8 THEN "same" ELSE "replaced"]

\* shell.onData: count the bytes, call this.atc.send(...) without awaiting or
\* catching it, write the data to the client's stream. A rejected promise
\* nobody handles ends the process or only warns, as the runtime is set up.
ShellData(ch) ==
    /\ proc = "running"
    /\ chan[ch].pc = "attached" /\ ch \in alive
    /\ infoBytesWritten[chan[ch].conn] < MaxBytes
    /\ infoBytesWritten' = [infoBytesWritten EXCEPT ![chan[ch].conn] = @ + 1]
    /\ LET data == [ch |-> ch, n |-> infoBytesWritten[chan[ch].conn] + 1]
       IN /\ toRelay' = IF send = "sent" THEN Append(toRelay, data) ELSE toRelay
          /\ toStream' = streamWrite(toStream, data)
    /\ IF send = "rejected"
       THEN /\ unhandled' = TRUE
            /\ \E exits \in BOOLEAN : proc' = IF exits THEN "crashed" ELSE proc
       ELSE UNCHANGED <<unhandled, proc>>
    /\ UNCHANGED <<startState, relayUp, ws, attemptsLeft, retryTimer, infoBytesRead,
                   toShell, attempts>>
    /\ RelayFrame

\* stream.on('data'): count the bytes and write them to the relay process.
StreamData(ch) ==
    /\ proc = "running"
    /\ chan[ch].pc = "attached" /\ ch \in alive
    /\ infoBytesRead[chan[ch].conn] < MaxBytes
    /\ infoBytesRead' = [infoBytesRead EXCEPT ![chan[ch].conn] = @ + 1]
    /\ \E utf8 \in BOOLEAN :
          LET data == [ch |-> ch, n |-> infoBytesRead[chan[ch].conn] + 1, utf8 |-> utf8]
          IN toShell' = Append(toShell, dataToString(data))
    /\ UNCHANGED <<startState, relayUp, ws, attemptsLeft, retryTimer, proc, unhandled,
                   infoBytesWritten, toRelay, toStream, attempts>>
    /\ RelayFrame

\* ======================================================= TmuxService calls
\* The plumbing of a TmuxService operation: the commands it runs one after
\* the other through executeCommand, the fs calls between them, and what the
\* caller gets.
AdapterOps == {"createSession", "killSession", "listSessions", "listWindows",
               "splitWindow", "resizePane", "enablePersistence", "restoreSession",
               "sendKeys"}

FsSteps == {"chmodSync", "unlinkSync"}

\* the steps of an operation, in order: tmux commands and fs calls
Steps(op, group, persist) ==
    CASE op = "createSession" ->
            <<"new-session">>
            \o (IF group THEN <<"chmodSync", "run-shell">> ELSE <<>>)
            \o (IF persist THEN <<"run-shell">> ELSE <<>>)
      [] op = "killSession" -> <<"kill-session", "unlinkSync">>
      [] op = "listSessions" -> <<"list-sessions">>
      [] op = "listWindows" -> <<"list-windows">>
      [] op = "splitWindow" -> <<"split-window">>
      [] op = "resizePane" -> <<"resize-pane">>
      [] op = "sendKeys" -> <<"send-keys">>
      [] OTHER -> <<"run-shell">>

\* text a command writes to stdout: characters, "\n" the line break
MaxOut == 2
Outputs == UNION {[1..n -> {"a", "\n"}] : n \in 0..MaxOut}
\* text a command writes to stderr
Diagnostics == {"", "no server running"}
ExitCodes == {0, 1}

RECURSIVE trimStart(_)
trimStart(text) ==
    IF text # <<>> /\ Head(text) = "\n" THEN trimStart(Tail(text)) ELSE text

RECURSIVE trimEnd(_)
trimEnd(text) ==
    IF text # <<>> /\ text[Len(text)] = "\n"
    THEN trimEnd(SubSeq(text, 1, Len(text) - 1))
    ELSE text

\* String.prototype.trim on the captured output
trim(text) == trimEnd(trimStart(text))

\* output.split('\n').filter(Boolean): the non-empty lines; each line is then
\* split at its commas into the fields of one object
RECURSIVE Lines(_, _)
Lines(text, line) ==
    IF text = <<>>
    THEN IF line = <<>> THEN <<>> ELSE <<line>>
    ELSE IF Head(text) = "\n"
         THEN (IF line = <<>> THEN <<>> ELSE <<line>>) \o Lines(Tail(text), <<>>)
         ELSE Lines(Tail(text), Append(line, Head(text)))

NoError == [kind |-> "none", command |-> "", text |-> ""]
NoResult == [void |-> TRUE, lines |-> <<>>]
NoCall == [op |-> "none", state |-> "idle", todo |-> <<>>, ran |-> <<>>,
           output |-> <<>>, result |-> NoResult, error |-> NoError]

\* A 'close' handler that resolves whatever the exit code is.
commandClosed_Swallow(command, code, output, error) ==
    [resolved |-> TRUE, output |-> trim(output), error |-> NoError]

\* executeCommand, the 'close' handler of the spawned tmux: exit code 0
\* resolves with the trimmed stdout, any other code rejects with
\* new Error(`tmux ${command} failed: ${error}`), error being the stderr text.
commandClosed(command, code, output, error) ==
    IF code = 0
    THEN [resolved |-> TRUE, output |-> trim(output), error |-> NoError]
    ELSE [resolved |-> FALSE, output |-> <<>>,
          error |-> [kind |-> "command", command |-> command, text |-> error]]

\* what the operation returns once its steps are done: the list operations
\* the parsed lines of the output, the others nothing
Returned(op, output) ==
    IF op \in {"listSessions", "listWindows"}
    THEN [void |-> FALSE, lines |-> Lines(output, <<>>)]
    ELSE NoResult

\* the operation goes on after a step that succeeded
AdapterContinue(output) ==
    LET rest == Tail(adapterCall.todo)
    IN  IF rest = <<>>
        THEN [adapterCall EXCEPT !.todo = rest, !.state = "returned", !.output = output,
                                 !.result = Returned(adapterCall.op, output)]
        ELSE [adapterCall EXCEPT !.todo = rest, !.output = output]

\* catch (error) { Logger.error(...); throw error; } of every operation
AdapterRethrow(error) ==
    [adapterCall EXCEPT !.state = "threw", !.error = error]

\* A caller invokes an operation: it runs up to its first await.
AdapterCall(op, group, persist) ==
    /\ adapterCall.state # "running"
    /\ adapterCall' = [NoCall EXCEPT !.op = op, !.state = "running",
                                     !.todo = Steps(op, group, persist)]
    /\ UNCHANGED rawSvc

\* The tmux process of the awaited command closes.
CommandClose(code, output, error) ==
    /\ adapterCall.state = "running"
    /\ Head(adapterCall.todo) \notin FsSteps
    /\ LET command == Head(adapterCall.todo)
           settled == commandClosed(command, code, output, error)
           after == [adapterCall EXCEPT !.ran = Append(@, [command |-> command, code |-> code,
                                                           stdout |-> output, stderr |-> error])]
       IN  adapterCall' = IF settled.resolved
                          THEN [AdapterContinue(settled.output) EXCEPT !.ran = after.ran]
                          ELSE [AdapterRethrow(settled.error) EXCEPT !.ran = after.ran]
    /\ UNCHANGED rawSvc

\* fs.chmodSync(socketPath, 0o770) of createSession, and of killSession
\* `if (fs.existsSync(socketPath)) fs.unlinkSync(socketPath)`: the call
\* returns or throws a file system error.
FsCall(throws) ==
    /\ adapterCall.state = "running"
    /\ Head(adapterCall.todo) \in FsSteps
    /\ adapterCall' = IF throws
                      THEN AdapterRethrow([kind |-> "fs", command |-> Head(adapterCall.todo),
                                           text |-> ""])
                      ELSE AdapterContinue(adapterCall.output)
    /\ UNCHANGED rawSvc

\* ======================================================= socket service
\* services/ssh.service.ts: SSHService over plain sockets. Each connection
\* gets the identifier `session_${Date.now()}`, a pty process and an entry
\* of the registry under that identifier.
NumSockets == 2
Sockets == 1..NumSockets

\* what socket.read() yields at the connection, after toString().trim()
RawCommands == {"", "tmux attach", "tmux new-session"}

NoSocket == [pc |-> "none", key |-> -1, isTmux |-> FALSE]

RawIdle ==
    rawSvc = [now |-> 0, sessions |-> <<>>, procs |-> {},
              sock |-> [s \in Sockets |-> NoSocket]]

PkgIdle == adapterCall = NoCall /\ RawIdle

\* what the calls of TmuxService and the socket service leave alone
PkgFrame == UNCHANGED <<shellVars, sftpVars, authVars, adminVars, relayVars, stopVars>>

\* pty.spawn(...) and this.sessions.set(sessionId, { shell, isTmux }); the
\* pty of socket s is named s
rawRegister(svc, s, key, isTmux) ==
    [svc EXCEPT !.procs = @ \cup {s},
                !.sessions = MapSet(@, key, [shell |-> s, isTmux |-> isTmux])]

\* server.on('connection') and handleSession up to its first await or its
\* end: the identifier is read off the clock; a tmux command other than
\* attach awaits createSession first, every other command spawns its pty,
\* registers it and installs the handlers.
RawConnection(s, t, command) ==
    /\ rawSvc.sock[s].pc = "none"
    /\ t \in {rawSvc.now, rawSvc.now + 1} /\ t <= MaxTime
    /\ LET isTmux == command # ""
           svc == [rawSvc EXCEPT !.now = t]
       IN  rawSvc' = IF command = "tmux new-session"
                     THEN [svc EXCEPT !.sock[s] = [pc |-> "creating", key |-> t,
                                                   isTmux |-> TRUE]]
                     ELSE [rawRegister(svc, s, t, isTmux) EXCEPT
                              !.sock[s] = [pc |-> "open", key |-> t, isTmux |-> isTmux]]
    /\ UNCHANGED adapterCall

\* The awaited createSession settles. On success the attach pty is spawned
\* and registered; a socket that closed meanwhile gets its 'close' handler
\* too late. On failure the error is rethrown and the socket destroyed.
RawCreateDone(s, ok) ==
    /\ rawSvc.sock[s].pc \in {"creating", "creatingClosed"}
    /\ rawSvc' = IF ok
                 THEN [rawRegister(rawSvc, s, rawSvc.sock[s].key, TRUE) EXCEPT
                          !.sock[s].pc = IF rawSvc.sock[s].pc = "creating"
                                         THEN "open" ELSE "closed"]
                 ELSE [rawSvc EXCEPT !.sock[s].pc = "closed"]
    /\ UNCHANGED adapterCall

\* the registry without the entry of a key
rawDelete(registry, key) == [k \in DOMAIN registry \ {key} |-> registry[k]]

\* socket 'close'. With the handler installed: the entry under the socket's
\* identifier is looked up; none, nothing is done; one that is not tmux has
\* its shell killed and is deleted; a tmux one is kept and detach-client is
\* run. Before the handler is installed the close goes unnoticed.
RawClose(s) ==
    /\ rawSvc.sock[s].pc \in {"open", "creating"}
    /\ LET key == rawSvc.sock[s].key
           closed == [rawSvc EXCEPT !.sock[s].pc = IF @ = "open" THEN "closed"
                                                   ELSE "creatingClosed"]
       IN  rawSvc' = IF rawSvc.sock[s].pc = "open" /\ key \in DOMAIN rawSvc.sessions
                        /\ ~rawSvc.sessions[key].isTmux
                     THEN [closed EXCEPT !.procs = @ \ {rawSvc.sessions[key].shell},
                                         !.sessions = rawDelete(@, key)]
                     ELSE closed
    /\ UNCHANGED adapterCall

\* ======================================================= SSHService.stop
\* `session_${Date.now()}`, the registry key, read as a session identifier
RegistryKey(t) == AppId("session", t)

NoEntry == [key |-> -1, shell |-> 0]

StopIdle ==
    /\ stopState = "idle"
    /\ stopEntry = NoEntry
    /\ killRequests = {}

\* ATCClient.disconnect(): with a socket, ws.close() and this.ws = null. The
\* timer of a pending retry is not cleared.
disconnect ==
    /\ ws' = "null"
    /\ UNCHANGED retryTimer

\* The loop of stop() over a registry S with the processes A alive: with an
\* entry left, killSession(<registry key>) is called for it and awaited
\* (isTmux is true in every entry); with none left the relay client is
\* disconnected (ws.close(), this.ws = null) and the server closed. The
\* registry is a Map that is iterated while entries are deleted and added;
\* the model keeps no insertion order and lets the loop take any entry.
stopLoop(S, A) ==
    /\ sessions' = S
    /\ alive' = A
    /\ IF DOMAIN S = {}
       THEN /\ stopState' = "stopped"
            /\ stopEntry' = NoEntry
            /\ disconnect
            /\ startState' = "closed"
            /\ UNCHANGED killRequests
       ELSE /\ \E key \in DOMAIN S :
                  /\ stopEntry' = [key |-> key, shell |-> S[key].shell]
                  /\ killRequests' = IF S[key].isTmux
                                     THEN killRequests \cup {S[key].shell}
                                     ELSE killRequests
            /\ stopState' = "killing"
            /\ UNCHANGED <<ws, retryTimer, startState>>

\* what stop() leaves alone
StopFrame ==
    UNCHANGED <<now, defaultSrv, created, cstate, username, sessionKey, activeChannels,
                chan, sftpVars, authVars, relayUp, attemptsLeft, proc,
                unhandled, infoBytesWritten, infoBytesRead, attempts, toRelay, toStream,
                toShell, pkgVars>>

\* stop() is called: the first iteration of the loop, up to its await
Stop ==
    /\ stopState = "idle" /\ Listening
    /\ stopLoop(sessions, alive)
    /\ UNCHANGED <<mux, saved, adminVars>>
    /\ StopFrame

\* killSession returns: on an error stop() logs and rethrows, leaving the
\* loop; else the entry's process is killed, the entry deleted and the loop
\* goes on.
StopKillDone ==
    /\ stopState = "killing"
    /\ killSession(RegistryKey(stopEntry.key))
    /\ IF adminLast'.threw
       THEN /\ stopState' = "threw"
            /\ stopEntry' = NoEntry
            /\ UNCHANGED <<sessions, alive, killRequests, ws, retryTimer, startState>>
       ELSE stopLoop(MapDelete(sessions, stopEntry.key), alive \ {stopEntry.shell})
    /\ StopFrame

\* ======================================================= file-transfer model
\* SSHService.handleSFTP and the part of the operating system it calls.

\* ----------------------------------------------------------------- bounds
MaxFd == 1          \* descriptors 1..MaxFd can be handed out by fs.open
MaxPending == 2     \* fs calls in flight at one time
MaxReq == 2         \* requests the clients send in one run of SftpSpec
MaxHandleReq == 4   \* requests the clients send in one run of HandleSpec

\* SFTP_STATUS
STATUS_OK == 0
STATUS_EOF == 1
STATUS_NO_SUCH_FILE == 2
STATUS_PERMISSION_DENIED == 3
STATUS_FAILURE == 4

\* SFTP_OPEN_MODE
OPEN_READ == 1
OPEN_WRITE == 2
OPEN_APPEND == 4
OPEN_CREATE == 8
OPEN_TRUNCATE == 16
OPEN_EXCL == 32

\* `flags & bit`, as a truth value
HasFlag(flags, bit) == (flags \div bit) % 2 = 1

\* File-transfer channels accepted by session.on('sftp').
SftpChans == {"s1", "s2"}

\* The part of the file system the clients name.
Dir == "d"
Files == {"d/a", "d/b"}
Paths == Files \cup {Dir}
Absent == -1
\* The inode of an open descriptor whose path was unlinked or replaced.
Detached == "(detached)"

\* Descriptor numbers.  ServiceFd is a descriptor the process holds for itself
\* (the listening socket of start(); the standard streams and the pty masters
\* are others); fs.open gets the lowest free number, as open(2) gives it.
ServiceFd == 0
Fds == ServiceFd..MaxFd
UserFds == Fds \ {ServiceFd}
ClosedFd == [open |-> FALSE, path |-> "", mode |-> "", owner |-> ""]
ServiceDescriptor == [open |-> TRUE, path |-> "(socket)", mode |-> "r+", owner |-> "service"]

\* Conditions the environment may impose on an fs call besides those that
\* follow from the state of the file system.
Faults == {"none", "EACCES"}

\* handle.writeInt32BE(fd, 0) on Buffer.alloc(4)
writeInt32BE(fd) ==
    LET hi == IF fd < 0 THEN 255 - ((-fd - 1) \div 16777216) ELSE fd \div 16777216
        lo == IF fd < 0 THEN 16777215 - ((-fd - 1) % 16777216) ELSE fd % 16777216
    IN <<hi, lo \div 65536, (lo \div 256) % 256, lo % 256>>

\* handle.readInt32BE(0) throws a RangeError on a buffer shorter than 4 bytes.
readInt32BEThrows(handle) == Len(handle) < 4

\* handle.readInt32BE(0): the first four bytes, big endian, two's complement.
readInt32BE(handle) ==
    LET b1 == IF handle[1] >= 128 THEN handle[1] - 256 ELSE handle[1]
    IN b1 * 16777216 + handle[2] * 65536 + handle[3] * 256 + handle[4]

\* Buffer.from(path): the bytes of the one-character directory name "d".
PathBytes == <<100>>

\* handle.toString(): the bytes read as a UTF-8 path.
toString(handle) == IF handle = PathBytes THEN Dir ELSE "(no such path)"

\* Handles a client may put into a READ, WRITE or CLOSE: the encoding of every
\* descriptor number and an empty buffer.
HandleInputs == {writeInt32BE(fd) : fd \in Fds} \cup {<< >>}
\* Handles a client may put into a READDIR: the bytes of the directory name
\* and an empty buffer.
DirHandleInputs == {PathBytes, << >>}

\* OPEN flag words the clients send.
FlagInputs == {OPEN_READ, OPEN_WRITE + OPEN_CREATE, OPEN_READ + OPEN_WRITE}
DataLens == {100}
Offsets == {0}
InitSizes == {Absent, 0, 1}

Max(a, b) == IF a >= b THEN a ELSE b
Min(a, b) == IF a <= b THEN a ELSE b

NoLast == [op |-> "none", nresp |-> 0, echo |-> FALSE, kind |-> "none",
           status |-> -1, size |-> -1, handle |-> << >>, touched |-> FALSE,
           owner |-> "", stale |-> FALSE, foreign |-> FALSE, exhausted |-> FALSE,
           err |-> "none"]

NoScen == [step |-> 0, k |-> "", path |-> "", handle |-> << >>, faulted |-> FALSE,
           flags |-> 0, before |-> -1]

\* State of the subsystem when the first channel is accepted: the directory
\* exists and holds the files of `sizes`, no user descriptor is open.
SftpInitWith(sizes) ==
    /\ dirExists = TRUE
    /\ files = sizes
    /\ fds = [fd \in Fds |-> IF fd = ServiceFd THEN ServiceDescriptor ELSE ClosedFd]
    /\ pending = {}
    /\ nreq = 0
    /\ sftpState = [k \in SftpChans |-> "open"]
    /\ issued = [k \in SftpChans |-> {}]
    /\ closedHandles = [k \in SftpChans |-> {}]
    /\ delivered = [k \in SftpChans |-> {}]
    /\ last = NoLast
    /\ scen = NoScen

\* The directory holds one file of one byte.
SftpInit == SftpInitWith([f \in Files |-> IF f = "d/a" THEN 1 ELSE Absent])

\* --------------------------------------------------------- request handlers
\* The names fs.readdir finds in the directory.
Entries == {f \in Files : files[f] # Absent}

\* A request arrives on an open channel.  The two channels are alike, so the
\* first request of a run is taken to arrive on "s1".
CanRequest(k) ==
    /\ sftpState[k] = "open"
    /\ k = "s1" \/ nreq > 0
    /\ Cardinality(pending) < MaxPending

\* The fs call a handler issues; its callback closes over reqid.
Call(k, op, handle, fd, path, newPath, flags, mode, length, offset) ==
    [k |-> k, reqid |-> nreq + 1, op |-> op, handle |-> handle, fd |-> fd,
     path |-> path, newPath |-> newPath, flags |-> flags, fsFlags |-> mode,
     length |-> length, offset |-> offset,
     stale |-> handle \in closedHandles[k],
     foreign |-> op \in {"READ", "WRITE", "CLOSE"} /\ handle \notin issued[k],
     drained |-> op = "READDIR" /\ Entries \subseteq delivered[k]]

Issue(call) ==
    /\ pending' = pending \cup {call}
    /\ nreq' = nreq + 1
    /\ last' = NoLast
    /\ UNCHANGED <<dirExists, files, fds, sftpState, issued, closedHandles, delivered>>

\* readInt32BE throws inside the event handler: no fs call is made and no
\* response is sent; the exception leaves the handler and the channel serves
\* no further request.
Throw(k, op, handle) ==
    /\ nreq' = nreq + 1
    /\ sftpState' = [sftpState EXCEPT ![k] = "aborted"]
    /\ last' = [NoLast EXCEPT !.op = op,
                              !.stale = handle \in closedHandles[k],
                              !.foreign = handle \notin issued[k]]
    /\ UNCHANGED <<dirExists, files, fds, pending, issued, closedHandles, delivered>>

MKDIR(k, path) ==
    /\ CanRequest(k)
    /\ path \in Files => files[path] # Absent
    /\ Issue(Call(k, "MKDIR", << >>, -1, path, "", 0, "", 0, 0))
    /\ UNCHANGED <<shellVars, svcVars>>

STAT(k, path) ==
    /\ CanRequest(k)
    /\ Issue(Call(k, "STAT", << >>, -1, path, "", 0, "", 0, 0))
    /\ UNCHANGED <<shellVars, svcVars>>

READ(k, handle, offset, length) ==
    /\ CanRequest(k)
    /\ IF readInt32BEThrows(handle)
       THEN Throw(k, "READ", handle)
       ELSE Issue(Call(k, "READ", handle, readInt32BE(handle), "", "", 0, "", length, offset))
    /\ UNCHANGED <<shellVars, svcVars>>

WRITE(k, handle, offset, length) ==
    /\ CanRequest(k)
    /\ IF readInt32BEThrows(handle)
       THEN Throw(k, "WRITE", handle)
       ELSE Issue(Call(k, "WRITE", handle, readInt32BE(handle), "", "", 0, "", length, offset))
    /\ UNCHANGED <<shellVars, svcVars>>

\* A translation that never yields a creating mode.
fsFlags_NoCreate(flags) ==
    IF HasFlag(flags, OPEN_WRITE) THEN "r+" ELSE "r"

\* let fsFlags = 'r'; READ and WRITE -> 'r+'; else WRITE -> 'w'
fsFlags(flags) ==
    IF HasFlag(flags, OPEN_READ) /\ HasFlag(flags, OPEN_WRITE) THEN "r+"
    ELSE IF HasFlag(flags, OPEN_WRITE) THEN "w"
    ELSE "r"

OPEN(k, filename, flags) ==
    /\ CanRequest(k)
    /\ Issue(Call(k, "OPEN", << >>, -1, filename, "", flags, fsFlags(flags), 0, 0))
    /\ UNCHANGED <<shellVars, svcVars>>

CLOSE(k, handle) ==
    /\ CanRequest(k)
    /\ IF readInt32BEThrows(handle)
       THEN Throw(k, "CLOSE", handle)
       ELSE Issue(Call(k, "CLOSE", handle, readInt32BE(handle), "", "", 0, "", 0, 0))
    /\ UNCHANGED <<shellVars, svcVars>>

READDIR(k, handle) ==
    /\ CanRequest(k)
    /\ Issue(Call(k, "READDIR", handle, -1, toString(handle), "", 0, "", 0, 0))
    /\ UNCHANGED <<shellVars, svcVars>>

REMOVE(k, path) ==
    /\ CanRequest(k)
    /\ Issue(Call(k, "REMOVE", << >>, -1, path, "", 0, "", 0, 0))
    /\ UNCHANGED <<shellVars, svcVars>>

RMDIR(k, path) ==
    /\ CanRequest(k)
    /\ Issue(Call(k, "RMDIR", << >>, -1, path, "", 0, "", 0, 0))
    /\ UNCHANGED <<shellVars, svcVars>>

RENAME(k, oldPath, newPath) ==
    /\ CanRequest(k)
    /\ Issue(Call(k, "RENAME", << >>, -1, oldPath, newPath, 0, "", 0, 0))
    /\ UNCHANGED <<shellVars, svcVars>>

\* ------------------------------------------------------ the operating system
IsOpen(fd) == fd \in Fds /\ fds[fd].open
FreeFds == {fd \in UserFds : ~fds[fd].open}
LowestFree == CHOOSE fd \in FreeFds : \A g \in FreeFds : fd <= g
Exists(path) ==
    IF path = Dir THEN dirExists ELSE path \in Files /\ files[path] # Absent

\* Descriptors opened on `path` keep their inode when the name goes away.
Detach(table, path) ==
    [fd \in Fds |-> IF table[fd].open /\ table[fd].path = path
                    THEN [table[fd] EXCEPT !.path = Detached] ELSE table[fd]]
Repath(table, old, new) ==
    [fd \in Fds |-> IF table[fd].open /\ table[fd].path = old
                    THEN [table[fd] EXCEPT !.path = new] ELSE table[fd]]

mkdirErr(path, fault) ==
    IF fault # "none" THEN fault
    ELSE IF path \in Files THEN "EEXIST"
    ELSE IF path # Dir THEN "ENOENT"
    ELSE "none"

statErr(path, fault) ==
    IF fault # "none" THEN fault ELSE IF ~Exists(path) THEN "ENOENT" ELSE "none"

openErr(path, mode, fault) ==
    IF fault # "none" THEN fault
    ELSE IF path \notin Files THEN (IF Exists(path) THEN "EISDIR" ELSE "ENOENT")
    ELSE IF ~dirExists THEN "ENOENT"
    ELSE IF mode \in {"r", "r+"} /\ files[path] = Absent THEN "ENOENT"
    ELSE IF FreeFds = {} THEN "EMFILE"
    ELSE "none"

readErr(fd, fault) ==
    IF ~IsOpen(fd) \/ fds[fd].mode = "w" THEN "EBADF" ELSE fault

writeErr(fd, fault) ==
    IF ~IsOpen(fd) \/ fds[fd].mode = "r" THEN "EBADF" ELSE fault

closeErr(fd, fault) ==
    IF ~IsOpen(fd) THEN "EBADF" ELSE fault

readdirErr(path, fault) ==
    IF fault # "none" THEN fault
    ELSE IF path = Dir /\ dirExists THEN "none"
    ELSE IF Exists(path) THEN "ENOTDIR"
    ELSE "ENOENT"

unlinkErr(path, fault) ==
    IF fault # "none" THEN fault
    ELSE IF path = Dir THEN (IF dirExists THEN "EISDIR" ELSE "ENOENT")
    ELSE IF ~Exists(path) THEN "ENOENT"
    ELSE "none"

rmdirErr(path, fault) ==
    IF fault # "none" THEN fault
    ELSE IF path # Dir THEN (IF Exists(path) THEN "ENOTDIR" ELSE "ENOENT")
    ELSE IF ~dirExists THEN "ENOENT"
    ELSE IF Entries # {} THEN "ENOTEMPTY"
    ELSE "none"

renameErr(oldPath, newPath, fault) ==
    IF fault # "none" THEN fault
    ELSE IF ~Exists(oldPath) THEN "ENOENT"
    ELSE IF oldPath = Dir \/ newPath = Dir THEN (IF oldPath = newPath THEN "none" ELSE "EINVAL")
    ELSE "none"

\* ------------------------------------------------------------ fs callbacks
\* What the callback of call r sends: nothing reaches a channel that is gone.
\* `rid` is the request id the response is sent with.
\* `err` is the error the callback was handed, "none" when it was handed none.
AnswerErr(r, rid, kind, status, size, touched, owner, exhausted, err) ==
    last' = IF sftpState[r.k] # "open" THEN NoLast
            ELSE [op |-> r.op, nresp |-> 1, echo |-> (rid = r.reqid), kind |-> kind,
                  status |-> status, size |-> size,
                  handle |-> IF kind = "handle" THEN r.handle ELSE << >>,
                  touched |-> touched, owner |-> owner,
                  stale |-> r.stale, foreign |-> r.foreign, exhausted |-> exhausted,
                  err |-> err]

Answer(r, rid, kind, status, size, touched, owner, exhausted) ==
    AnswerErr(r, rid, kind, status, size, touched, owner, exhausted, "none")

Status(r, err, status) ==
    AnswerErr(r, r.reqid, "status", status, -1, FALSE, "", FALSE, err)

Finish(r) == pending' = pending \ {r}

MkdirCallback(r, fault) ==
    /\ r \in pending /\ r.op = "MKDIR"
    /\ LET err == mkdirErr(r.path, fault) IN
        /\ dirExists' = (dirExists \/ (err = "none" /\ r.path = Dir))
        /\ Status(r, err, IF err # "none" THEN STATUS_FAILURE ELSE STATUS_OK)
    /\ Finish(r)
    /\ UNCHANGED <<files, fds, nreq, sftpState, issued, closedHandles, delivered>>
    /\ UNCHANGED <<shellVars, svcVars>>

StatCallback(r, fault) ==
    /\ r \in pending /\ r.op = "STAT"
    /\ LET err == statErr(r.path, fault) IN
        IF err # "none" THEN Status(r, err, STATUS_NO_SUCH_FILE)
        ELSE Answer(r, r.reqid, "attrs", -1, IF r.path = Dir THEN 0 ELSE files[r.path],
                    FALSE, "", FALSE)
    /\ Finish(r)
    /\ UNCHANGED <<dirExists, files, fds, nreq, sftpState, issued, closedHandles, delivered>>
    /\ UNCHANGED <<shellVars, svcVars>>

\* bytesRead of a read that the descriptor allows
BytesRead(r) ==
    IF fds[r.fd].path \in Files
    THEN {Max(0, Min(r.length, files[fds[r.fd].path] - r.offset))}
    ELSE {0, r.length}

ReadCallback(r, fault) ==
    /\ r \in pending /\ r.op = "READ"
    /\ LET err == readErr(r.fd, fault) IN
        IF err # "none" THEN Status(r, err, STATUS_FAILURE)
        ELSE \E bytesRead \in BytesRead(r) :
            IF bytesRead = 0
            THEN Answer(r, r.reqid, "status", STATUS_EOF, -1, TRUE, fds[r.fd].owner, FALSE)
            ELSE Answer(r, r.reqid, "data", -1, bytesRead, TRUE, fds[r.fd].owner, FALSE)
    /\ Finish(r)
    /\ UNCHANGED <<dirExists, files, fds, nreq, sftpState, issued, closedHandles, delivered>>
    /\ UNCHANGED <<shellVars, svcVars>>

\* `short`: the write stores fewer bytes than asked and reports no error.
WriteCallback(r, fault, short) ==
    /\ r \in pending /\ r.op = "WRITE"
    /\ LET err == writeErr(r.fd, fault)
           written == IF short THEN r.length \div 2 ELSE r.length
           path == fds[r.fd].path IN
        IF err # "none"
        THEN /\ Status(r, err, STATUS_FAILURE)
             /\ files' = files
        ELSE /\ Answer(r, r.reqid, "status", STATUS_OK, written, TRUE, fds[r.fd].owner, FALSE)
             /\ files' = IF path \in Files
                         THEN [files EXCEPT ![path] = Max(@, r.offset + written)]
                         ELSE files
    /\ Finish(r)
    /\ UNCHANGED <<dirExists, fds, nreq, sftpState, issued, closedHandles, delivered>>
    /\ UNCHANGED <<shellVars, svcVars>>

OpenCallback(r, fault) ==
    /\ r \in pending /\ r.op = "OPEN"
    /\ LET err == openErr(r.path, r.fsFlags, fault)
           fd == LowestFree
           handle == writeInt32BE(fd) IN
        IF err # "none"
        THEN /\ Status(r, err, STATUS_NO_SUCH_FILE)
             /\ UNCHANGED <<files, fds, issued, closedHandles>>
        ELSE /\ files' = IF r.fsFlags = "w" THEN [files EXCEPT ![r.path] = 0] ELSE files
             /\ fds' = [fds EXCEPT ![fd] = [open |-> TRUE, path |-> r.path,
                                            mode |-> r.fsFlags, owner |-> r.k]]
             /\ Answer([r EXCEPT !.handle = handle], r.reqid, "handle", -1, -1, FALSE, "", FALSE)
             /\ IF sftpState[r.k] = "open"
                THEN /\ issued' = [issued EXCEPT ![r.k] = @ \cup {handle}]
                     /\ closedHandles' = [closedHandles EXCEPT ![r.k] = @ \ {handle}]
                ELSE UNCHANGED <<issued, closedHandles>>
    /\ Finish(r)
    /\ UNCHANGED <<dirExists, nreq, sftpState, delivered>>
    /\ UNCHANGED <<shellVars, svcVars>>

\* close(2) releases the descriptor also when it reports an I/O error.
CloseCallback(r, fault) ==
    /\ r \in pending /\ r.op = "CLOSE"
    /\ LET err == closeErr(r.fd, fault) IN
        /\ fds' = IF IsOpen(r.fd) THEN [fds EXCEPT ![r.fd] = ClosedFd] ELSE fds
        /\ IF err # "none"
           THEN /\ AnswerErr(r, r.reqid, "status", STATUS_FAILURE, -1, IsOpen(r.fd),
                             IF IsOpen(r.fd) THEN fds[r.fd].owner ELSE "", FALSE, err)
                /\ closedHandles' = closedHandles
           ELSE /\ Answer(r, r.reqid, "status", STATUS_OK, -1, TRUE, fds[r.fd].owner, FALSE)
                /\ closedHandles' =
                     IF sftpState[r.k] = "open" /\ r.handle \in issued[r.k]
                     THEN [closedHandles EXCEPT ![r.k] = @ \cup {r.handle}]
                     ELSE closedHandles
    /\ Finish(r)
    /\ UNCHANGED <<dirExists, files, nreq, sftpState, issued, delivered>>
    /\ UNCHANGED <<shellVars, svcVars>>

ReaddirCallback(r, fault) ==
    /\ r \in pending /\ r.op = "READDIR"
    /\ LET err == readdirErr(r.path, fault)
           exhausted == r.drained /\ Entries \subseteq delivered[r.k] IN
        IF err # "none"
        THEN /\ Status(r, err, STATUS_NO_SUCH_FILE)
             /\ delivered' = delivered
        ELSE IF Cardinality(Entries) = 0
        THEN /\ Answer(r, r.reqid, "status", STATUS_EOF, -1, FALSE, "", exhausted)
             /\ delivered' = delivered
        ELSE /\ Answer(r, r.reqid, "name", -1, Cardinality(Entries), FALSE, "", exhausted)
             /\ delivered' = IF sftpState[r.k] = "open"
                             THEN [delivered EXCEPT ![r.k] = @ \cup Entries]
                             ELSE delivered
    /\ Finish(r)
    /\ UNCHANGED <<dirExists, files, fds, nreq, sftpState, issued, closedHandles>>
    /\ UNCHANGED <<shellVars, svcVars>>

RemoveCallback(r, fault) ==
    /\ r \in pending /\ r.op = "REMOVE"
    /\ LET err == unlinkErr(r.path, fault) IN
        IF err # "none"
        THEN /\ Status(r, err, STATUS_NO_SUCH_FILE)
             /\ UNCHANGED <<files, fds>>
        ELSE /\ Status(r, err, STATUS_OK)
             /\ files' = [files EXCEPT ![r.path] = Absent]
             /\ fds' = Detach(fds, r.path)
    /\ Finish(r)
    /\ UNCHANGED <<dirExists, nreq, sftpState, issued, closedHandles, delivered>>
    /\ UNCHANGED <<shellVars, svcVars>>

RmdirCallback(r, fault) ==
    /\ r \in pending /\ r.op = "RMDIR"
    /\ LET err == rmdirErr(r.path, fault) IN
        /\ dirExists' = (dirExists /\ err # "none")
        /\ Status(r, err, IF err # "none" THEN STATUS_NO_SUCH_FILE ELSE STATUS_OK)
    /\ Finish(r)
    /\ UNCHANGED <<files, fds, nreq, sftpState, issued, closedHandles, delivered>>
    /\ UNCHANGED <<shellVars, svcVars>>

RenameCallback(r, fault) ==
    /\ r \in pending /\ r.op = "RENAME"
    /\ LET err == renameErr(r.path, r.newPath, fault) IN
        IF err # "none"
        THEN /\ Status(r, err, STATUS_NO_SUCH_FILE)
             /\ UNCHANGED <<files, fds>>
        ELSE /\ Status(r, err, STATUS_OK)
             /\ IF r.path = r.newPath
                THEN UNCHANGED <<files, fds>>
                ELSE /\ files' = [files EXCEPT ![r.newPath] = files[r.path],
                                               ![r.path] = Absent]
                     /\ fds' = Repath(Detach(fds, r.newPath), r.path, r.newPath)
    /\ Finish(r)
    /\ UNCHANGED <<dirExists, nreq, sftpState, issued, closedHandles, delivered>>
    /\ UNCHANGED <<shellVars, svcVars>>

\* The client or the transport ends the file-transfer channel.  handleSFTP
\* registers no 'end' or 'close' listener on the stream, so nothing else runs.
ChannelEnd(k) ==
    /\ sftpState[k] = "open"
    /\ sftpState' = [sftpState EXCEPT ![k] = "ended"]
    /\ UNCHANGED <<dirExists, files, fds, pending, nreq, issued, closedHandles,
                   delivered, last>>
    /\ UNCHANGED <<shellVars, svcVars>>

\* ------------------------------------------------------ the shell machine
Init == ShellInit /\ SftpInit /\ AuthIdle /\ AdminIdle /\ RelayIdle /\ StopIdle /\ PkgIdle

Next ==
    \/ \E c \in Conns : ClientReady(c)
    \/ \E c \in Conns, ch \in Chans : ShellOpen(c, ch)
    \/ \E ch \in Chans : ListDone(ch)
    \/ \E ch \in Chans : NewSessionDone(ch)
    \/ \E ch \in Chans : PersistDone(ch)
    \/ \E ch \in Chans : StreamClose(ch)
    \/ \E ch \in Chans : CloseSaveDone(ch)

Spec == Init /\ [][Next]_vars

\* ------------------------------------------------ the file-transfer machine
\* All ten handlers, their callbacks and the end of a channel.
SftpNext ==
    \/ \E k \in SftpChans, path \in Paths :
          nreq < MaxReq /\ MKDIR(k, path) /\ UNCHANGED scen
    \/ \E k \in SftpChans, path \in Paths :
          nreq < MaxReq /\ STAT(k, path) /\ UNCHANGED scen
    \/ \E k \in SftpChans, handle \in HandleInputs, offset \in Offsets, length \in DataLens :
          nreq < MaxReq /\ READ(k, handle, offset, length) /\ UNCHANGED scen
    \/ \E k \in SftpChans, handle \in HandleInputs, offset \in Offsets, length \in DataLens :
          nreq < MaxReq /\ WRITE(k, handle, offset, length) /\ UNCHANGED scen
    \/ \E k \in SftpChans, filename \in Files, flags \in FlagInputs :
          nreq < MaxReq /\ OPEN(k, filename, flags) /\ UNCHANGED scen
    \/ \E k \in SftpChans, handle \in HandleInputs :
          nreq < MaxReq /\ CLOSE(k, handle) /\ UNCHANGED scen
    \/ \E k \in SftpChans, handle \in DirHandleInputs :
          nreq < MaxReq /\ READDIR(k, handle) /\ UNCHANGED scen
    \/ \E k \in SftpChans, path \in Paths :
          nreq < MaxReq /\ REMOVE(k, path) /\ UNCHANGED scen
    \/ \E k \in SftpChans, path \in Paths :
          nreq < MaxReq /\ RMDIR(k, path) /\ UNCHANGED scen
    \/ \E k \in SftpChans, oldPath \in Files, newPath \in Files :
          nreq < MaxReq /\ RENAME(k, oldPath, newPath) /\ UNCHANGED scen
    \/ \E r \in pending, fault \in Faults : MkdirCallback(r, fault) /\ UNCHANGED scen
    \/ \E r \in pending, fault \in Faults : StatCallback(r, fault) /\ UNCHANGED scen
    \/ \E r \in pending, fault \in Faults : ReadCallback(r, fault) /\ UNCHANGED scen
    \/ \E r \in pending, fault \in Faults, short \in BOOLEAN :
          WriteCallback(r, fault, short) /\ UNCHANGED scen
    \/ \E r \in pending, fault \in Faults : OpenCallback(r, fault) /\ UNCHANGED scen
    \/ \E r \in pending, fault \in Faults : CloseCallback(r, fault) /\ UNCHANGED scen
    \/ \E r \in pending, fault \in Faults : ReaddirCallback(r, fault) /\ UNCHANGED scen
    \/ \E r \in pending, fault \in Faults : RemoveCallback(r, fault) /\ UNCHANGED scen
    \/ \E r \in pending, fault \in Faults : RmdirCallback(r, fault) /\ UNCHANGED scen
    \/ \E r \in pending, fault \in Faults : RenameCallback(r, fault) /\ UNCHANGED scen
    \/ \E k \in SftpChans : ChannelEnd(k) /\ UNCHANGED scen

\* No shell channel is open while the file-transfer channels are served.
SftpStart == ShellIdle /\ SftpInit /\ AuthIdle /\ AdminIdle /\ RelayIdle /\ StopIdle /\ PkgIdle

SftpSpec == SftpStart /\ [][SftpNext]_vars

\* ------------------------------------------------- the descriptor lifecycle
\* The handlers that take or return a file handle, over longer runs.
HandleNext ==
    \/ \E k \in SftpChans, handle \in HandleInputs, offset \in Offsets, length \in DataLens :
          nreq < MaxHandleReq /\ READ(k, handle, offset, length) /\ UNCHANGED scen
    \/ \E k \in SftpChans, handle \in HandleInputs, offset \in Offsets, length \in DataLens :
          nreq < MaxHandleReq /\ WRITE(k, handle, offset, length) /\ UNCHANGED scen
    \/ \E k \in SftpChans, filename \in Files, flags \in FlagInputs :
          nreq < MaxHandleReq /\ OPEN(k, filename, flags) /\ UNCHANGED scen
    \/ \E k \in SftpChans, handle \in HandleInputs :
          nreq < MaxHandleReq /\ CLOSE(k, handle) /\ UNCHANGED scen
    \/ \E r \in pending, fault \in Faults : ReadCallback(r, fault) /\ UNCHANGED scen
    \/ \E r \in pending, fault \in Faults, short \in BOOLEAN :
          WriteCallback(r, fault, short) /\ UNCHANGED scen
    \/ \E r \in pending, fault \in Faults : OpenCallback(r, fault) /\ UNCHANGED scen
    \/ \E r \in pending, fault \in Faults : CloseCallback(r, fault) /\ UNCHANGED scen
    \/ \E k \in SftpChans : ChannelEnd(k) /\ UNCHANGED scen

HandleSpec == SftpStart /\ [][HandleNext]_vars

\* ------------------------------------------------- Scenario B, one client
\* create+write: WRITE and CREATE set, READ clear, the other bits free.
CreateWriteFlags ==
    {OPEN_WRITE + OPEN_CREATE + a + t + e :
        a \in {0, OPEN_APPEND}, t \in {0, OPEN_TRUNCATE}, e \in {0, OPEN_EXCL}}

\* OPEN with create+write flags on a non-existent path in a writable directory
ScenarioOpen ==
    /\ scen.step = 0
    /\ \E k \in SftpChans, filename \in Files, flags \in CreateWriteFlags :
        /\ dirExists /\ files[filename] = Absent
        /\ OPEN(k, filename, flags)
        /\ scen' = [scen EXCEPT !.step = 1, !.k = k, !.path = filename]

\* WRITE of 100 bytes at offset 0 on the handle the OPEN returned
ScenarioWrite ==
    /\ scen.step = 1 /\ pending = {}
    /\ last.op = "OPEN" /\ last.kind = "handle"
    /\ WRITE(scen.k, last.handle, 0, 100)
    /\ scen' = [scen EXCEPT !.step = 2, !.handle = last.handle]

\* CLOSE of the handle once the WRITE was answered OK
ScenarioClose ==
    /\ scen.step = 2 /\ pending = {}
    /\ last.op = "WRITE" /\ last.kind = "status" /\ last.status = STATUS_OK
    /\ CLOSE(scen.k, scen.handle)
    /\ scen' = [scen EXCEPT !.step = 3]

\* STAT of the path once the CLOSE was answered OK
ScenarioStat ==
    /\ scen.step = 3 /\ pending = {}
    /\ last.op = "CLOSE" /\ last.kind = "status" /\ last.status = STATUS_OK
    /\ STAT(scen.k, scen.path)
    /\ scen' = [scen EXCEPT !.step = 4]

\* The callbacks of the scenario's calls; `faulted` records that the
\* environment imposed an error or a short write on one of them.
ScenarioCallback ==
    \E r \in pending, fault \in Faults, short \in BOOLEAN :
        /\ short => r.op = "WRITE"
        /\ \/ OpenCallback(r, fault)
           \/ WriteCallback(r, fault, short)
           \/ CloseCallback(r, fault)
           \/ StatCallback(r, fault)
        /\ scen' = [scen EXCEPT !.faulted = @ \/ fault # "none" \/ short]

ScenarioBNext ==
    \/ ScenarioOpen
    \/ ScenarioWrite
    \/ ScenarioClose
    \/ ScenarioStat
    \/ ScenarioCallback

\* Each file is absent or holds one byte when the scenario starts.
ScenarioStart ==
    /\ ShellIdle /\ AuthIdle /\ AdminIdle /\ RelayIdle /\ StopIdle /\ PkgIdle
    /\ \E sizes \in [Files -> InitSizes] : SftpInitWith(sizes)

ScenarioBSpec == ScenarioStart /\ [][ScenarioBNext]_vars

\* ------------------------------------------------- one OPEN, any flags
\* every combination of the six flag bits that asks for reading or writing
OpenFlags ==
    {f \in 0..(2 * OPEN_EXCL - 1) : HasFlag(f, OPEN_READ) \/ HasFlag(f, OPEN_WRITE)}

\* OPEN of a file of the directory, present or not, with any flags
OpenRequest ==
    /\ scen.step = 0
    /\ \E k \in SftpChans, filename \in Files, flags \in OpenFlags :
        /\ OPEN(k, filename, flags)
        /\ scen' = [scen EXCEPT !.step = 1, !.k = k, !.path = filename,
                                !.flags = flags, !.before = files[filename]]

\* fs.open calls back
OpenAnswered ==
    /\ scen.step = 1
    /\ \E r \in pending, fault \in Faults :
        /\ OpenCallback(r, fault)
        /\ scen' = [scen EXCEPT !.step = 2, !.faulted = fault # "none",
                                !.handle = last'.handle]

OpenNext ==
    \/ OpenRequest
    \/ OpenAnswered

OpenSpec == ScenarioStart /\ [][OpenNext]_vars

\* ------------------------------------------------ TmuxService calls
\* Operations of TmuxService called one after the other, each command with
\* any exit code, output and diagnostic text, each fs call failing or not.
AdapterNext ==
    \/ \E op \in AdapterOps, group \in BOOLEAN, persist \in BOOLEAN :
          AdapterCall(op, group, persist) /\ PkgFrame
    \/ \E code \in ExitCodes, output \in Outputs, error \in Diagnostics :
          CommandClose(code, output, error) /\ PkgFrame
    \/ \E throws \in BOOLEAN : FsCall(throws) /\ PkgFrame

AdapterSpec == SftpStart /\ [][AdapterNext]_vars

\* ------------------------------------------------ the socket service
\* Sockets that connect with any first command, at the same or a later
\* millisecond, and close at any time.
RawNext ==
    \/ \E s \in Sockets, t \in 0..MaxTime, command \in RawCommands :
          RawConnection(s, t, command) /\ PkgFrame
    \/ \E s \in Sockets, ok \in BOOLEAN : RawCreateDone(s, ok) /\ PkgFrame
    \/ \E s \in Sockets : RawClose(s) /\ PkgFrame

RawSpec == SftpStart /\ [][RawNext]_vars

\* ------------------------------------------------ a command that hangs
\* the positions at which a handler awaits a multiplexer command
CommandRunning == {"list", "newSession", "persist", "closeSave"}

\* An adapter that runs one command at a time (spawnSync, or a queue): the
\* command of a channel returns only when no earlier channel waits for one.
executeCommand_Serial(ch) ==
    /\ chan[ch].pc \in CommandRunning
    /\ \A o \in Chans : o < ch => chan[o].pc \notin CommandRunning

\* executeCommand: spawn() returns at once and the promise is settled by the
\* child's own 'close' event, whatever the other children are doing
executeCommand(ch) == chan[ch].pc \in CommandRunning

\* the command channel ch awaits returns and its handler goes on
CommandReturns(ch) ==
    /\ executeCommand(ch)
    /\ \/ ListDone(ch)
       \/ NewSessionDone(ch)
       \/ PersistDone(ch)
       \/ CloseSaveDone(ch)

\* Channel 1 of alice's connection and channel 2 of bob's. The commands of
\* channel 2 return; those of channel 1 may take forever.
HangNext ==
    \/ \E c \in Conns : ClientReady(c)
    \/ \E c \in Conns : ShellOpen(c, c)
    \/ \E ch \in Chans : CommandReturns(ch)
    \/ \E ch \in Chans : StreamClose(ch)
    \/ ShellData(2)
    \/ StreamData(2)

HangStart ==
    /\ ShellInit /\ username = [c \in Conns |-> IF c = 1 THEN "alice" ELSE "bob"]
    /\ SftpInit /\ AuthIdle /\ AdminIdle /\ RelayIdle /\ StopIdle /\ PkgIdle

HangSpec == HangStart /\ [][HangNext]_vars /\ WF_vars(CommandReturns(2))

\* ------------------------------------------------ the service is stopped
\* Shell channels of two connections of one user, and one call of stop().
StopNext ==
    \/ \E c \in Conns : ClientReady(c)
    \/ \E c \in Conns, ch \in Chans : ShellOpen(c, ch)
    \/ \E ch \in Chans : ListDone(ch)
    \/ \E ch \in Chans : NewSessionDone(ch)
    \/ \E ch \in Chans : PersistDone(ch)
    \/ \E ch \in Chans : StreamClose(ch)
    \/ \E ch \in Chans : CloseSaveDone(ch)
    \/ Stop
    \/ StopKillDone

StopSpec == SftpStart /\ [][StopNext]_vars



\* ------------------------------------------------ the connection handshake
\* Authentication requests, the 'ready' event and the session events of each
\* connection. The library is taken to deliver 'session' at any time: which
\* listeners exist decides what a session event does.
AuthNext ==
    \/ \E c \in Conns : Authentication(c)
    \/ \E c \in Conns : ClientReady(c)
    \/ \E c \in Conns, kind \in ChannelKinds : SessionEvent(c, kind)

AuthStart ==
    /\ ShellInitFrom("connected", {}) /\ defaultSrv = {}
    /\ SftpInit
    /\ AuthInit
    /\ AdminIdle
    /\ RelayIdle /\ StopIdle /\ PkgIdle

AuthSpec == AuthStart /\ [][AuthNext]_vars

\* ------------------------------------------------ session administration
\* Sessions that createSession left behind, with and without a display name,
\* and the three calls on them.
TmuxNext ==
    \/ \E id \in AdminIds : killSession(id) /\ AdminFrame
    \/ \E id \in AdminIds : EnablePersistence(id) /\ AdminFrame
    \/ \E id \in AdminIds : restoreSession(id) /\ AdminFrame
    \/ \E s \in mux, layout \in WindowLayouts : UserWindows(s, layout) /\ AdminFrame

TmuxStart ==
    /\ \E S \in SUBSET AdminIds, named \in BOOLEAN :
          ShellInitFrom("accepted", {SessionOf(id, named) : id \in S})
    /\ defaultSrv = {} /\ username = [c \in Conns |-> "alice"]
    /\ SftpInit /\ AuthIdle /\ AdminIdle /\ RelayIdle /\ StopIdle /\ PkgIdle

TmuxSpec == TmuxStart /\ [][TmuxNext]_vars

\* ------------------------------------------------ Scenario D, the relay
\* start() with a relay that is reachable or not, and one client that opens
\* a shell channel at any time after the listener is open.
RelayNext ==
    \/ Listen
    \/ Connect
    \/ WsOpen
    \/ WsError
    \/ RetryTimer
    \/ WsErrorOpen
    \/ proc = "running" /\ Listening /\ ClientReady(1)
    \/ proc = "running" /\ Listening /\ ShellOpen(1, 1)
    \/ proc = "running" /\ ListDone(1)
    \/ proc = "running" /\ NewSessionDone(1)
    \/ proc = "running" /\ PersistDone(1)
    \/ ShellData(1)
    \/ StreamData(1)

RelayStart == ShellIdle /\ SftpInit /\ AuthIdle /\ AdminIdle /\ RelayInit /\ StopIdle /\ PkgIdle

RelaySpec == RelayStart /\ [][RelayNext]_vars

\* ------------------------------------------------ the relay client stopped
\* start() with its connection attempts, errors of the relay, and one call
\* of stop() at any time after the server listens, with one shell channel.
ClientNext ==
    \/ Listen
    \/ Connect
    \/ WsOpen
    \/ WsError
    \/ WsErrorOpen
    \/ RetryTimer
    \/ proc = "running" /\ Listening /\ ClientReady(1)
    \/ proc = "running" /\ Listening /\ ShellOpen(1, 1)
    \/ proc = "running" /\ ListDone(1)
    \/ proc = "running" /\ NewSessionDone(1)
    \/ proc = "running" /\ PersistDone(1)
    \/ proc = "running" /\ Stop
    \/ proc = "running" /\ StopKillDone

ClientSpec == RelayStart /\ [][ClientNext]_vars

\* ------------------------------------------------ session resolution claims
\* The new-session command issued for channel ch succeeded and the channel
\* went on with that session.
CreatedBy(ch) ==
    /\ chan[ch].pc \in {"persist"} \cup Resolved
    /\ \E s \in created : s.ch = ch

\* Neither resolution had completed when the other started.
Concurrent(a, b) == a \notin chan[b].pred /\ b \notin chan[a].pred

\* C1: for every identity U, under every interleaving of concurrent
\* shell-channel opens for U coming from two connections, at most one
\* multiplexer session is ever created for U: no two concurrent resolvers of
\* one identity both create a session.
C1_AtMostOneSessionPerIdentity ==
    \A a \in Chans, b \in Chans :
        (/\ a # b
         /\ chan[a].conn # chan[b].conn
         /\ chan[a].conn # 0 /\ chan[b].conn # 0
         /\ username[chan[a].conn] = username[chan[b].conn]
         /\ Concurrent(a, b))
            => ~(CreatedBy(a) /\ CreatedBy(b))

\* C2: two sequential resolutions for the same identity (the second started
\* after the first completed, no kill in between) resolve to the same session
\* identifier, and the second creates no new session.
C2_SequentialResolveSameSession ==
    \A a \in Chans, b \in Chans :
        (chan[b].pc \in Resolved /\ a \in chan[b].pred)
            => /\ chan[b].tmuxSessionId = chan[a].tmuxSessionId
               /\ ~ViaCreate(b)

\* C3 (Scenario A): after a connection of U opened a shell channel that
\* created U's session and disconnected (its close handler ran to the end),
\* the shell channel of a later connection of U spawns its relay process
\* against the socket path and the session target the first session was
\* created with.
C3_ReattachSameSocketAndTarget ==
    \A a \in Chans, b \in Chans :
        (/\ chan[b].pc \in Resolved
         /\ a \in chan[b].predClosed
         /\ chan[a].pc = "closed"
         /\ ViaCreate(a)
         /\ chan[a].conn # chan[b].conn)
            => chan[b].spawn = [sock |-> getSocketPath(chan[a].tmuxSessionId),
                                target |-> chan[a].tmuxSessionId]

\* The multiplexer session a resolved channel is bound to still exists.
BackingSessionExists(ch) ==
    IF ViaCreate(ch)
    THEN SessionsOn(chan[ch].tmuxSessionId) # {}
    ELSE \E s \in defaultSrv : s.id = chan[ch].tmuxSessionId

\* C4: closing the transport channel of a shell attached to a persistent
\* session never destroys the backing multiplexer session: from the moment
\* the close handler has started, in every later state, the session exists.
C4_CloseKeepsBackingSession ==
    \A ch \in Chans :
        chan[ch].pc \in {"closeSave", "closed", "closeFailed"} => BackingSessionExists(ch)

\* C4 witness: a channel that created its session was closed, its save
\* succeeded, its relay process is gone and the session is still there.
C4_Witness ==
    \E ch \in Chans :
        /\ chan[ch].pc = "closed"
        /\ ViaCreate(ch)
        /\ ch \notin alive
        /\ getResurrectPath(chan[ch].tmuxSessionId) \in saved
        /\ SessionsOn(chan[ch].tmuxSessionId) # {}

\* --------------------------------------------------- file-transfer claims
\* C5: for every handle h returned by a successful OPEN, once CLOSE(h) has
\* succeeded no later READ, WRITE or CLOSE carrying h succeeds, also when
\* further OPENs are performed after the close.  `stale` marks a request whose
\* handle was closed on its channel and not handed to that channel again;
\* `touched` says the request operated on an open descriptor.  (The claim asks
\* in addition for a not-found status.)
C5_ClosedHandleNeverSucceeds == last.stale => ~last.touched

\* C6: a READ, WRITE or CLOSE whose handle no successful OPEN on the same
\* channel ever issued reads, writes or closes no OS descriptor, neither one
\* opened through another channel nor one of the service itself.
C6_UnissuedHandleTouchesNothing == last.foreign => (~last.touched /\ last.owner = "")

\* C7: after a file-transfer channel has ended no descriptor opened by an OPEN
\* on that channel remains open.
C7_ChannelEndReleasesDescriptors ==
    \A k \in SftpChans : sftpState[k] = "ended" =>
        \A fd \in Fds : ~(fds[fd].open /\ fds[fd].owner = k)

\* C8: every request receives exactly one response, never zero and never two,
\* and the response carries the id of the request, malformed handles included.
C8_ExactlyOneResponse == last.op # "none" => (last.nresp = 1 /\ last.echo)

\* C9: once zero entries of the directory remain undelivered on the channel,
\* the next READDIR with the same token answers END_OF_FILE.  `exhausted` says
\* that every entry had been delivered on the channel when the request arrived
\* and when fs.readdir completed.
C9_ReaddirEndsWithEof ==
    (last.op = "READDIR" /\ last.exhausted) =>
        (last.kind = "status" /\ last.status = STATUS_EOF)

\* C10 (Scenario B): OPEN with create+write flags on a non-existent path in a
\* writable directory returns a handle; WRITE of 100 bytes at offset 0 on it
\* returns OK; CLOSE returns OK and leaves the handle without a descriptor; the
\* following STAT of the path reports size 100.  Stated for a file system that
\* imposes no error and no short write on the scenario's calls.
C10_ScenarioB ==
    (scen.step >= 1 /\ ~scen.faulted) =>
        /\ last.op = "OPEN" => last.kind = "handle"
        /\ last.op = "WRITE" => (last.kind = "status" /\ last.status = STATUS_OK)
        /\ last.op = "CLOSE" => (last.kind = "status" /\ last.status = STATUS_OK)
        /\ (scen.step >= 3 /\ last.op \in {"CLOSE", "STAT"}) =>
              ~IsOpen(readInt32BE(scen.handle))
        /\ last.op = "STAT" => (last.kind = "attrs" /\ last.size = 100)

\* The scenario ran to its end: the STAT was answered with size 100.
C10_Witness ==
    /\ scen.step = 4 /\ ~scen.faulted
    /\ last.op = "STAT" /\ last.kind = "attrs" /\ last.size = 100
    /\ files[scen.path] = 100
    /\ ~IsOpen(readInt32BE(scen.handle))

\* ------------------------------------------------ authentication claims
MethodSet(methodsLeft) == {methodsLeft[i] : i \in DOMAIN methodsLeft}

\* C11: a password request whose password differs from the configured or
\* generated secret is rejected, and the rejection offers the methods
\* password and publickey again.
C11_WrongPasswordRejectedWithMethods ==
    (authReply.method = "password" /\ authReply.password # generatedPassword)
        => /\ ~authReply.accept
           /\ MethodSet(authReply.methodsLeft) = {"password", "publickey"}

\* C13: a request whose method is neither publickey nor password is rejected,
\* and the rejection carries exactly the list password, publickey.
C13_OtherMethodRejectedWithMethods ==
    (authReply.conn # 0 /\ authReply.method \notin {"publickey", "password"})
        => /\ ~authReply.accept
           /\ Len(authReply.methodsLeft) = 2
           /\ MethodSet(authReply.methodsLeft) = {"password", "publickey"}

C13_Witness ==
    /\ authReply.method = "keyboard-interactive"
    /\ ~authReply.accept
    /\ authReply.methodsLeft = <<"password", "publickey">>
    /\ cstate[authReply.conn] = "authenticating"

\* the encoded presented key equals, as a whole, the encoded key of an entry
WholeKeyMatch(key) ==
    /\ keysFile.readable
    /\ key.present
    /\ \E i \in DOMAIN keysFile.entries :
          toStringBase64(key.data) = toStringBase64(keysFile.entries[i])

\* C14: a publickey request is accepted if and only if the encoded presented
\* key equals, as a whole, the encoded key of some entry of authorized_keys;
\* a fragment of an entry, a missing key or an unreadable list is rejected.
C14_KeyAcceptedIffWholeEntry ==
    authReply.method = "publickey"
        => (authReply.accept <=> WholeKeyMatch(authReply.key))

\* C15: a connection on which a shell or file-transfer channel has been
\* dispatched is Ready and has had an authentication request accepted before;
\* none is served while the connection is Connected or Authenticating.
C15_ChannelsOnlyAfterAccept ==
    \A c \in Conns :
        served[c] # {} => (accepted[c] /\ cstate[c] = "ready")

C15_Witness ==
    \E c \in Conns :
        /\ served[c] = {"sftp"}
        /\ accepted[c]
        /\ \E d \in Conns : cstate[d] = "authenticating" /\ activeChannels[d] > 0

\* ------------------------------------------------ identity isolation
\* the channel's handleShellSession has resolved a session identifier
HasResolved(ch) == chan[ch].pc \in Resolved

\* C16: for two distinct identities the session identifiers their shell
\* opens resolve to are distinct, and so are the socket paths, on the create
\* path and on the attach path, under any interleaving.
C16_DistinctIdentitiesDistinctSessions ==
    \A a \in Chans, b \in Chans :
        (/\ HasResolved(a) /\ HasResolved(b)
         /\ username[chan[a].conn] # username[chan[b].conn])
            => /\ chan[a].tmuxSessionId # chan[b].tmuxSessionId
               /\ chan[a].spawn.sock # chan[b].spawn.sock

\* ------------------------------------------------ administration claims
\* C17: killSession(id) on an identifier with no session completes without
\* error and leaves all other sessions and sockets unchanged.
C17_KillAbsentIsNoop ==
    (adminLast.op = "killSession" /\ adminLast.absent)
        => (~adminLast.threw /\ ~adminLast.changed)

StatusOps == {"OPEN", "STAT", "REMOVE", "RMDIR", "RENAME", "MKDIR", "READ",
              "WRITE", "CLOSE"}

\* C19: a failing OPEN, STAT, REMOVE, RMDIR, RENAME, MKDIR, READ, WRITE or
\* CLOSE is answered with NO_SUCH_FILE when the path does not exist, with
\* PERMISSION_DENIED on a permission error and with FAILURE otherwise.
C19_ErrorTaxonomy ==
    (last.op \in StatusOps /\ last.err # "none")
        => /\ last.kind = "status"
           /\ last.status = (IF last.err = "ENOENT" THEN STATUS_NO_SUCH_FILE
                             ELSE IF last.err = "EACCES" THEN STATUS_PERMISSION_DENIED
                             ELSE STATUS_FAILURE)

\* C20: a failing request never ends the channel: whatever the request (bad
\* path, unknown or malformed handle, file-system error) the failure comes
\* back as a status on the same channel, which stays open for later requests.
C20_FailureKeepsChannel ==
    \A k \in SftpChans : sftpState[k] # "aborted"

\* ------------------------------------------------ relay claims
\* C12: with the Event Relay unreachable on every attempt, start() completes
\* with the listener open and shell channels opened afterwards or during the
\* retries are fully operational: the session is resolved, the relay process
\* runs and bytes flow in both directions; the service keeps running.
C12_ScenarioD ==
    ~relayUp => proc = "running"

\* ------------------------------------------------ failure isolation claims
\* the positions of handleShellSession before the relay process is spawned
Opening == {"list", "newSession", "persist"}

C22_ConnectIsBounded ==
    ~relayUp =>
        /\ attempts <= Retries + 1
        /\ attemptsLeft >= 0
        /\ ws # "null" => attempts + attemptsLeft = Retries + 1
        /\ retryTimer => (ws = "closed" /\ attemptsLeft > 0 /\ startState = "connecting")
        /\ startState = "started" =>
               (attempts = Retries + 1 /\ ~retryTimer /\ ws = "closed")
        /\ (ws = "closed" /\ attemptsLeft = 0) => startState = "started"

C22_Witness ==
    ~relayUp /\ startState = "started" /\ attempts = Retries + 1 /\ ~retryTimer

\* ------------------------------------------------ relay data claims
\* the chunk numbers of channel ch in a queue, in queue order
RECURSIVE Numbers(_, _)
Numbers(queue, ch) ==
    IF queue = <<>> THEN <<>>
    ELSE (IF Head(queue).ch = ch THEN <<Head(queue).n>> ELSE <<>>)
             \o Numbers(Tail(queue), ch)

\* every chunk once, in the order of its production
Consecutive(s) == \A i \in 1..Len(s) : s[i] = i

\* no chunk twice, none before an earlier one
Increasing(s) == \A i \in 1..Len(s), j \in 1..Len(s) : i < j => s[i] < s[j]

\* C23: the order of the bytes is kept in both directions: what the channel
\* delivered is written to the relay process in the order received, what the
\* process printed is written to the channel and handed to the relay client
\* in the order produced, and no chunk is written twice.
C23_OrderPreserved ==
    \A ch \in Chans :
        /\ Consecutive(Numbers(toStream, ch))
        /\ Consecutive(Numbers(toShell, ch))
        /\ Increasing(Numbers(toRelay, ch))

C23_Witness ==
    /\ Numbers(toStream, 1) = <<1, 2>>
    /\ Numbers(toShell, 1) = <<1, 2>>
    /\ Numbers(toRelay, 1) = <<1, 2>>

\* C24: the copy for the relay never affects the primary path: every chunk
\* the process printed was written to the channel, and a send the relay
\* client rejected neither ends the service nor the shell channel.
C24_RelayFailureIsolated ==
    /\ \A ch \in Chans :
           chan[ch].pc = "attached" =>
               Len(Numbers(toStream, ch)) = infoBytesWritten[chan[ch].conn]
    /\ unhandled => proc = "running"

\* ------------------------------------------------ channel close claims
\* the registry entries that hold the relay process of channel ch
EntriesOf(ch) == {k \in DOMAIN sessions : sessions[k].shell = ch}

\* C26: once the close handler's save has returned, with or without an
\* error, the relay process of the closed channel is terminated and its
\* registry entry removed.
C26_CloseReleasesProcess ==
    \A ch \in Chans :
        chan[ch].pc \in Closed => (ch \notin alive /\ EntriesOf(ch) = {})

\* C27: the close handler terminates a relay process only in the step in
\* which the save of that process's session returns: never before the save
\* is issued and never while it is in flight.
C27_SaveBeforeKill ==
    [][\A p \in alive \ alive' :
          \E ch \in Chans :
              /\ chan[ch].pc = "closeSave" /\ chan'[ch].pc = "closed"
              /\ chan[ch].tmuxSessionId = chan[p].tmuxSessionId
              /\ chan[p].pc \in {"closeSave", "closed", "closeFailed"}]_vars

\* ------------------------------------------------ open mode and write claims
\* what the operating system does with a descriptor opened in each mode
Creates(mode) == mode \in {"w", "wx", "w+", "wx+", "a", "ax", "a+", "ax+"}
Truncates(mode) == mode \in {"w", "wx", "w+", "wx+"}
Appends(mode) == mode \in {"a", "ax", "a+", "ax+"}
Readable(mode) == mode \in {"r", "r+", "w+", "wx+", "a+", "ax+"}
Writable(mode) == mode # "r"

\* C28: for every combination of the flag bits the local open does what the
\* flags ask: the file is created only with CREATE, truncated only with
\* TRUNCATE, opened for appending with APPEND, refused when it exists and
\* CREATE and EXCL are both set, and readable and writable as READ and WRITE
\* say.
C28_OpenModeMatchesFlags ==
    (scen.step = 2 /\ scen.flags \in OpenFlags /\ ~scen.faulted) =>
        LET flags == scen.flags
            opened == last.kind = "handle"
            mode == fds[readInt32BE(scen.handle)].mode
        IN  /\ (scen.before = Absent /\ files[scen.path] # Absent)
                   => HasFlag(flags, OPEN_CREATE)
            /\ (scen.before > 0 /\ files[scen.path] = 0)
                   => HasFlag(flags, OPEN_TRUNCATE)
            /\ (HasFlag(flags, OPEN_CREATE) /\ HasFlag(flags, OPEN_EXCL)
                  /\ scen.before # Absent) => ~opened
            /\ opened =>
                   /\ HasFlag(flags, OPEN_APPEND) => Appends(mode)
                   /\ Readable(mode) <=> HasFlag(flags, OPEN_READ)
                   /\ Writable(mode) <=> HasFlag(flags, OPEN_WRITE)

\* C29: WRITE answers OK only when all the bytes of the request were written;
\* a write that reports no error and fewer bytes is answered with a failure.
\* Stated for handles the channel was given and has not closed.
C29_OkOnlyForCompleteWrite ==
    (last.op = "WRITE" /\ last.kind = "status" /\ last.status = STATUS_OK
         /\ ~last.foreign /\ ~last.stale)
        => last.size \in DataLens

\* ------------------------------------------------ service stop claims
Finished == {"stopped", "threw"}

\* C25: stop() asks the multiplexer to destroy only sessions whose
\* persistence is disabled; every session created with persistence enabled
\* still exists once stop() has finished.
C25_StopSparesPersistentSessions ==
    /\ \A ch \in killRequests : ~ViaCreate(ch)
    /\ stopState \in Finished =>
           \A ch \in Chans : CreatedBy(ch) => SessionsOn(chan[ch].tmuxSessionId) # {}

\* C30: whenever stop() finishes, by returning or by throwing, every relay
\* process of the registry has been terminated, the registry is empty, the
\* relay client is disconnected and the server is closed.
C30_StopReleasesEverything ==
    [][(stopState \notin Finished /\ stopState' \in Finished) =>
          /\ sessions' = <<>>
          /\ \A k \in DOMAIN sessions : sessions[k].shell \notin alive'
          /\ ws' = "null"
          /\ startState' = "closed"]_vars

\* ------------------------------------------------ registry claims
\* the channels of connection c that are open: accepted and not yet closed
OpenChannels(c) ==
    {ch \in Chans : chan[ch].conn = c
                    /\ chan[ch].pc \in Opening \cup {"attached", "closeSave"}}

\* C34: the channel counter of a connection equals the number of its open
\* channels and is never negative.
C34_CounterCountsOpenChannels ==
    \A c \in Conns :
        activeChannels[c] >= 0 /\ activeChannels[c] = Cardinality(OpenChannels(c))

\* C35: the close of channel A terminates only the relay process spawned
\* for A and removes only A's registry entry.
C35_CloseTouchesOnlyItsOwn ==
    [][\A ch \in Chans :
          (chan[ch].pc = "closeSave" /\ chan'[ch].pc \in Closed)
              => /\ alive \ alive' \subseteq {ch}
                 /\ \A k \in DOMAIN sessions \ DOMAIN sessions' :
                        sessions[k].shell = ch]_vars

\* C36: every live relay process of an attached shell channel is referenced
\* by an entry of the registry.
C36_LiveProcessHasEntry ==
    \A ch \in alive : chan[ch].pc = "attached" => EntriesOf(ch) # {}

\* C37: createSession is all-or-nothing: after a call that failed, no
\* session lives on the socket of its identifier.
C37_FailedCreateLeavesNothing ==
    \A s \in created : chan[s.ch].pc = "ended" => SessionsOn(s.id) = {}

\* ------------------------------------------------ hung command claims
\* C31: a multiplexer command that never returns for the session of one
\* connection does not stall another: whatever the commands of channel 1 do,
\* also when one of them hangs forever, an open of channel 2 is resolved (or
\* ended by a failure of its own command) and a close of channel 2 completes.
C31_HungCommandDoesNotStall ==
    /\ (chan[2].pc \in Opening) ~> (chan[2].pc \in {"attached", "ended"})
    /\ (chan[2].pc = "closeSave") ~> (chan[2].pc \in Closed)

\* channel 1 still waits for its first command while channel 2 was opened,
\* relayed two chunks each way and was closed
C31_Witness ==
    /\ chan[1].pc = "list"
    /\ chan[2].pc = "closed" /\ chan[2].conn = 2
    /\ Numbers(toStream, 2) = <<1, 2>>
    /\ Numbers(toShell, 2) = <<1, 2>>

\* ------------------------------------------------ relay client claims
\* C38: after disconnect() the relay client holds no connection in any later
\* state, also when disconnect() was called while a retry was pending.
C38_DisconnectIsFinal ==
    stopState = "stopped" => ws = "null"

\* C39: once the relay connection has opened the client creates no further
\* connection object: with a relay that accepts the first attempt, one
\* socket is created in all.
C39_NoAttemptAfterSuccess ==
    relayUp => attempts <= 1

\* ------------------------------------------------ TmuxService call claims
AdapterFinished == adapterCall.state \in {"returned", "threw"}
NonZeroExits == {i \in DOMAIN adapterCall.ran : adapterCall.ran[i].code # 0}
LastRan == adapterCall.ran[Len(adapterCall.ran)]

\* C32 as stated: an adapter operation fails if and only if a command it ran
\* exited non-zero; the failure carries the captured diagnostic text; on
\* exit code 0 it returns the captured output.
C32_FailsIffNonZeroExit ==
    AdapterFinished =>
        /\ adapterCall.state = "threw" <=> NonZeroExits # {}
        /\ adapterCall.state = "threw" =>
              /\ adapterCall.error.kind = "command"
              /\ adapterCall.error.text = LastRan.stderr
        /\ adapterCall.state = "returned" => adapterCall.output = trim(LastRan.stdout)

\* C32 amended: a command that exits non-zero fails the operation at once,
\* with that command's diagnostic text; the only other failure is a file
\* system error of chmodSync or unlinkSync in createSession or killSession
\* after commands that exited 0; an operation that returns ran every step,
\* all with exit code 0, and its value comes from the trimmed output.
C32_FailureComesFromItsStep ==
    AdapterFinished =>
        /\ NonZeroExits # {} =>
              /\ adapterCall.state = "threw"
              /\ NonZeroExits = {Len(adapterCall.ran)}
              /\ adapterCall.error = [kind |-> "command", command |-> LastRan.command,
                                      text |-> LastRan.stderr]
        /\ (adapterCall.state = "threw" /\ NonZeroExits = {}) =>
              /\ adapterCall.error.kind = "fs"
              /\ adapterCall.error.command \in FsSteps
              /\ adapterCall.op \in {"createSession", "killSession"}
        /\ adapterCall.state = "returned" =>
              /\ NonZeroExits = {} /\ adapterCall.todo = <<>>
              /\ adapterCall.error = NoError
              /\ adapterCall.output = trim(LastRan.stdout)
              /\ adapterCall.op \in {"listSessions", "listWindows"} =>
                    adapterCall.result.lines = Lines(LastRan.stdout, <<>>)

\* C32 witness: createSession with a group whose chgrp command exits
\* non-zero after new-session exited 0 has thrown with the chgrp diagnostics.
C32_Witness ==
    /\ adapterCall.op = "createSession" /\ adapterCall.state = "threw"
    /\ Len(adapterCall.ran) = 2
    /\ adapterCall.ran[1].code = 0 /\ adapterCall.ran[2].code = 1
    /\ adapterCall.error.text = "no server running"

\* ------------------------------------------------ socket service claims
\* C33: once the socket of a session that is not persistent has closed, its
\* pty process is gone and no registry entry holds it.
C33_CloseRemovesNonPersistent ==
    \A s \in Sockets :
        (rawSvc.sock[s].pc = "closed" /\ ~rawSvc.sock[s].isTmux) =>
            /\ s \notin rawSvc.procs
            /\ \A k \in DOMAIN rawSvc.sessions : rawSvc.sessions[k].shell # s

====
